---- MODULE Spec2Model ----
(***************************************************************************)
(* A model of the clone-and-incremental-translate engine:                  *)
(*   - ServerContentfulCloneService        (server/services/cloneService)  *)
(*   - ServerIncrementalTranslationService (incrementalTranslationService) *)
(*   - DeepReferenceTracker / ChangeDetectionService (deepReferenceTracker)*)
(*   - ContentfulMetadataService           (unnamed/part_000)              *)
(*   - the POST /api/clone route            (server/server.js)             *)
(* The CMS is a map from entry ids to entries; a field value is the value  *)
(* stored under the single storage locale.  sha256 over canonical JSON is  *)
(* modelled as an injective wrapper of the hashed value.                   *)
(***************************************************************************)
EXTENDS Naturals, Sequences, FiniteSets, TLC

(***************************************************************************)
(* Bounds of the model.                                                    *)
(***************************************************************************)
MaxEdits == 2
MaxRequests == 3
MaxCalls == 12
MaxLinks == 4
MaxStoreOps == 4

(***************************************************************************)
(* Generic helpers.                                                        *)
(***************************************************************************)
StartsWith(s, p) == Len(s) >= Len(p) /\ SubSeq(s, 1, Len(p)) = p

SeqContains(s, x) == \E i \in DOMAIN s : s[i] = x

\* f with key k set to v, k possibly new (a JavaScript object/Map assignment)
Put(f, k, v) == [x \in DOMAIN f \cup {k} |-> IF x = k THEN v ELSE f[x]]

NoFunction == [x \in {} |-> 0]

RECURSIVE SelectSeqBy(_, _)
\* the subsequence of s whose elements are in S (Array.prototype.filter)
SelectSeqBy(s, S) ==
  IF s = <<>> THEN <<>>
  ELSE (IF Head(s) \in S THEN <<Head(s)>> ELSE <<>>) \o SelectSeqBy(Tail(s), S)

(***************************************************************************)
(* Entries, links and field values.                                        *)
(***************************************************************************)
EntryLink(id) == [linkType |-> "Entry", id |-> id]

AssetLink(id) == [linkType |-> "Asset", id |-> id]

\* a field value under the storage locale: a string, or an array of links
TextValue(s) == [kind |-> "text", text |-> s, links |-> <<>>]
LinksValue(l) == [kind |-> "links", text |-> "", links |-> l]

IsText(v) == v.kind = "text"
IsLinks(v) == v.kind = "links"

\* the ordered field list of each content type (getContentType(id).fields)
SchemaFields(ctype) ==
  CASE ctype = "cmsPage" -> <<"title", "teaserText", "culture", "elements",
                               "authors", "internalName">>
    [] ctype = "scTeaser" -> <<"title", "text", "elements", "internalName">>
    [] ctype = "author" -> <<"name", "locale", "bio">>
    [] OTHER -> <<>>

SchemaType(fieldId) ==
  CASE fieldId = "title" -> "Symbol"
    [] fieldId = "culture" -> "Symbol"
    [] fieldId = "teaserText" -> "Text"
    [] fieldId = "text" -> "Text"
    [] fieldId = "elements" -> "Array"
    [] fieldId = "authors" -> "Array"
    [] fieldId = "name" -> "Symbol"
    [] fieldId = "locale" -> "Symbol"
    [] fieldId = "bio" -> "Text"
    [] fieldId = "internalName" -> "Symbol"
    [] OTHER -> "Object"

\* Object.entries(entry.fields): the fields an entry has, in schema order
FieldsOf(entry) == SelectSeqBy(SchemaFields(entry.ctype), DOMAIN entry.fields)

\* sys.publishedVersion || sys.version (published = 0: never published)
EffectiveVersion(entry) ==
  IF entry.published # 0 THEN entry.published ELSE entry.version

(***************************************************************************)
(* Strings.                                                                *)
(***************************************************************************)
RECURSIVE TrimLeft(_)
TrimLeft(s) ==
  IF Len(s) > 0 /\ SubSeq(s, 1, 1) = " "
  THEN TrimLeft(SubSeq(s, 2, Len(s)))
  ELSE s

RECURSIVE TrimRight(_)
TrimRight(s) ==
  IF Len(s) > 0 /\ SubSeq(s, Len(s), Len(s)) = " "
  THEN TrimRight(SubSeq(s, 1, Len(s) - 1))
  ELSE s

\* String.prototype.trim
Trim(s) == TrimRight(TrimLeft(s))

\* String.prototype.indexOf(sub, from), positions from 1; 0 when not found
IndexOf(s, sub, from) ==
  LET hits == {i \in from..(Len(s) - Len(sub) + 1) :
                 SubSeq(s, i, i + Len(sub) - 1) = sub}
  IN IF hits = {} THEN 0 ELSE CHOOSE i \in hits : \A j \in hits : i <= j

\* String.prototype.replace(token, by) with a string pattern: the first
\* occurrence (by holds no '$' in the model)
ReplaceFirst(s, token, by) ==
  LET i == IndexOf(s, token, 1)
  IN IF i = 0
     THEN s
     ELSE SubSeq(s, 1, i - 1) \o by \o SubSeq(s, i + Len(token), Len(s))

\* String.prototype.toUpperCase / toLowerCase on the language codes of the model
ToUpperCase(s) ==
  CASE s \in {"it", "It"} -> "IT"
    [] s \in {"de", "De"} -> "DE"
    [] s \in {"en", "En"} -> "EN"
    [] OTHER -> s

ToLowerCase(s) ==
  CASE s \in {"IT", "It"} -> "it"
    [] s \in {"DE", "De"} -> "de"
    [] s \in {"EN", "En"} -> "en"
    [] OTHER -> s

(***************************************************************************)
(* The machine translator (external): translateText(text, source, target). *)
(* The result names the target language and the text that was sent.        *)
(***************************************************************************)
DeepL(text, sourceLang, targetLang) == ToLowerCase(targetLang) \o ":" \o text

(***************************************************************************)
(* Field policy of the clone service (constructor configuration).          *)
(***************************************************************************)
CLONE_PREFIX == "[Clone]"

PrefixTargetFields == {"title"}

PrefixFieldTypes == {"Symbol", "Text"}

TranslateableTypes == {"Symbol", "Text"}

EmptyFieldIds == {"slug", "parentPage", "productionUrl", "authors"}

CopyAsIsFieldIds ==
  {"domain", "pageType", "productionUrl", "makeModel", "publicationDate",
   "lastModificationDate", "makeIds", "modelIds", "trackingName"}

MarkdownFields(ctype) ==
  CASE ctype = "cmsPage" -> {"teaserText"}
    [] ctype = "scTeaser" -> {"text"}
    [] ctype = "scText" -> {"content"}
    [] ctype = "author" -> {"bio"}
    [] OTHER -> {}

\* cultureMapping[code] || null (null is "")
CultureMapping(code) ==
  CASE code = "IT" -> "it-IT"
    [] code = "DE" -> "de-DE"
    [] code = "EN" -> "en-GB"
    [] OTHER -> ""

\* localeMapping[contentfulLocale] || null (null is "")
mapContentfulLocaleToDeepLLanguage(contentfulLocale) ==
  CASE contentfulLocale = "de-DE" -> "DE"
    [] contentfulLocale = "it-IT" -> "IT"
    [] contentfulLocale = "en-GB" -> "EN-GB"
    [] OTHER -> ""

detectSourceLocaleFromEntry(fields) ==
  IF "culture" \in DOMAIN fields /\ IsText(fields["culture"])
  THEN mapContentfulLocaleToDeepLLanguage(fields["culture"].text)
  ELSE ""

\* String.prototype.includes
Includes(s, sub) ==
  \E i \in 1..(Len(s) + 1) :
     i + Len(sub) - 1 <= Len(s) /\ SubSeq(s, i, i + Len(sub) - 1) = sub

isCultureField(fieldId) == Includes(fieldId, "culture")

shouldEmptyField(fieldId) == fieldId \in EmptyFieldIds

shouldCopyAsIs(fieldId) == fieldId \in CopyAsIsFieldIds

isMarkdownField(ctype, fieldId) == fieldId \in MarkdownFields(ctype)

\* authorConfig: enabled, fieldIds ['authors'], authorContentType 'author',
\* matchFields ['name'], cultureField 'locale'
isAuthorField(fieldId) == fieldId \in {"authors"}

findPrefixFields(ctype, fields) ==
  {f \in PrefixTargetFields :
     /\ SeqContains(SchemaFields(ctype), f)
     /\ SchemaType(f) \in PrefixFieldTypes
     /\ f \in DOMAIN fields}

getCultureValue(targetLanguage) == CultureMapping(ToUpperCase(targetLanguage))

\* translateText that loses the text when the translator fails
CloneTranslateText_Mut(translatorOk, text, fieldType, sourceLanguage, targetLanguage) ==
  IF translatorOk THEN DeepL(text, sourceLanguage, targetLanguage) ELSE ""

\* ServerContentfulCloneService.translateText; translatorOk is whether the
\* call of the translator succeeds (its error is caught and the text kept)
CloneTranslateText(translatorOk, text, fieldType, sourceLanguage, targetLanguage) ==
  IF text = "" \/ fieldType \notin TranslateableTypes \/ sourceLanguage = ""
  THEN text
  ELSE LET hasPrefix == StartsWith(text, CLONE_PREFIX)
           extractedPrefix == IF hasPrefix THEN CLONE_PREFIX \o " " ELSE ""
           textToTranslate ==
             IF hasPrefix
             THEN SubSeq(text, Len(extractedPrefix) + 1, Len(text))
             ELSE text
       IN IF Len(Trim(textToTranslate)) < 2
          THEN text
          ELSE IF ~translatorOk
          THEN text
          ELSE extractedPrefix \o DeepL(textToTranslate, sourceLanguage, targetLanguage)

\* the first match of /!\[([^\]]*)\]\(([^)]+)\)/ in content at or after from:
\* its first and last position, or first = 0
MatchImage(content, from) ==
  LET closes(p) == IndexOf(content, "]", p + 2)
      ends(p) == IndexOf(content, ")", closes(p) + 2)
      hits == {p \in from..(Len(content) - 1) :
                 /\ SubSeq(content, p, p + 1) = "!["
                 /\ closes(p) # 0
                 /\ closes(p) < Len(content)
                 /\ SubSeq(content, closes(p) + 1, closes(p) + 1) = "("
                 /\ ends(p) > closes(p) + 2}
      first == CHOOSE p \in hits : \A q \in hits : p <= q
  IN IF hits = {}
     THEN [first |-> 0, last |-> 0, caption |-> "", url |-> ""]
     ELSE [first |-> first,
           last |-> ends(first),
           caption |-> SubSeq(content, first + 2, closes(first) - 1),
           url |-> SubSeq(content, closes(first) + 2, ends(first) - 1)]

ImageToken(n) == "IMG_PLACEHOLDER_" \o ToString(n)

RECURSIVE ProtectImages(_, _, _)
\* content.replace(/!\[...\]\(...\)/g, ...) from position from on, after
\* imageCounter images: the processed content and the entries of imageMap
ProtectImages(content, from, imageCounter) ==
  LET m == MatchImage(content, from)
      rest == ProtectImages(content, m.last + 1, imageCounter + 1)
  IN IF m.first = 0
     THEN [content |-> SubSeq(content, from, Len(content)), imageMap |-> <<>>]
     ELSE [content |-> SubSeq(content, from, m.first - 1)
                       \o ImageToken(imageCounter + 1) \o rest.content,
           imageMap |-> <<[token |-> ImageToken(imageCounter + 1),
                           caption |-> m.caption,
                           url |-> m.url,
                           fullMatch |-> SubSeq(content, m.first, m.last)]>>
                        \o rest.imageMap]

RECURSIVE RestoreImages(_, _, _, _, _)
\* the loop of translateMarkdownContent over imageMap; captionOk is whether
\* the translator calls for captions succeed (the translator rejects an empty
\* caption in any case)
RestoreImages(captionOk, finalResult, imageMap, sourceLanguage, targetLanguage) ==
  IF imageMap = <<>>
  THEN finalResult
  ELSE LET imageData == Head(imageMap)
           translatedImageMarkdown ==
             "![" \o DeepL(imageData.caption, sourceLanguage, targetLanguage)
                  \o "](" \o imageData.url \o ")"
       IN RestoreImages(
            captionOk,
            ReplaceFirst(finalResult, imageData.token,
                         IF captionOk /\ imageData.caption # ""
                         THEN translatedImageMarkdown
                         ELSE imageData.fullMatch),
            Tail(imageMap), sourceLanguage, targetLanguage)

\* ServerContentfulCloneService.translateMarkdownContent; mainOk is whether
\* the translator call for the content succeeds (the translator rejects an
\* empty text, and on an error the content is returned as it was)
MarkdownContent(mainOk, captionOk, content, sourceLanguage, targetLanguage) ==
  LET protected == ProtectImages(content, 1, 0)
  IN IF ~mainOk \/ protected.content = ""
     THEN content
     ELSE RestoreImages(captionOk,
                        DeepL(protected.content, sourceLanguage, targetLanguage),
                        protected.imageMap, sourceLanguage, targetLanguage)

\* the texts translateMarkdownContent hands to the translator, in order: the
\* processed content and, when that call succeeded, each caption
MarkdownSent(mainOk, content) ==
  LET protected == ProtectImages(content, 1, 0)
  IN <<protected.content>>
     \o (IF mainOk /\ protected.content # ""
         THEN [i \in DOMAIN protected.imageMap |->
                 protected.imageMap[i].caption]
         ELSE <<>>)

\* translateMarkdownContent with a translator that works
translateMarkdownContent(content, sourceLanguage, targetLanguage) ==
  MarkdownContent(TRUE, TRUE, content, sourceLanguage, targetLanguage)

\* ServerIncrementalTranslationService.translateText; translatorOk is whether
\* the call of the translator succeeds (its error is caught and the text kept)
IncrementalTranslateTextIn(translatorOk, text, translationContext) ==
  IF Trim(text) = "" \/ ~translatorOk
  THEN text
  ELSE DeepL(text, translationContext.sourceLanguage,
             translationContext.targetLanguage)

\* translateText with a translator that works
IncrementalTranslateText(text, translationContext) ==
  IncrementalTranslateTextIn(TRUE, text, translationContext)

\* the texts ServerIncrementalTranslationService.translateText hands to the
\* translator
IncrementalSent(text) == IF Trim(text) = "" THEN <<>> ELSE <<text>>

(***************************************************************************)
(* The translatable-field predicates.  There are four of them.             *)
(***************************************************************************)
NonTranslatableFields ==
  {"slug", "sys_", "internalName", "id", "contentfulMetadata", "parentPage",
   "authors", "productionUrl", "makeModel", "publicationDate",
   "lastModificationDate", "makeIds", "modelIds", "trackingName", "domain",
   "pageType", "metaIndexToggle", "enableFeaturedArticle", "showInGoogleNews",
   "hasHighlightedText", "isPrimary", "spotlight", "publishedCounter",
   "fieldStatus", "automationTags", "culture"}

TrackerNonTranslatableFields ==
  {"slug", "sys_", "internalName", "id", "contentfulMetadata", "parentPage",
   "authors", "avatar", "image", "heroImages", "teaserImage", "icon", "plans",
   "sections", "elements", "links", "faq", "rows", "recommendedCategory",
   "product", "metaIndexToggle", "enableFeaturedArticle", "showInGoogleNews",
   "hasHighlightedText", "isPrimary", "spotlight", "publishedCounter",
   "fieldStatus", "automationTags"}

\* ServerIncrementalTranslationService.isTranslatableField: a non-empty string
ServiceIsTranslatableField(fieldName, fieldValue) ==
  /\ ~(\E d \in NonTranslatableFields : StartsWith(fieldName, d))
  /\ IsText(fieldValue)
  /\ Len(Trim(fieldValue.text)) > 0

\* ChangeDetectionService.isTranslatableField: any string
DetectionIsTranslatableField(fieldName, fieldValue) ==
  /\ ~(\E d \in NonTranslatableFields : StartsWith(fieldName, d))
  /\ IsText(fieldValue)

\* DeepReferenceTracker.isTranslatableField: any string, another deny list
TrackerIsTranslatableField(fieldName, fieldValue) ==
  /\ ~(\E d \in TrackerNonTranslatableFields : StartsWith(fieldName, d))
  /\ IsText(fieldValue)

\* DeepReferenceTracker.isFieldTranslatable
isFieldTranslatable(fieldName, fieldValue) ==
  /\ fieldName \notin {"culture", "domain", "slug", "sys", "metadata"}
  /\ IsText(fieldValue)
  /\ Len(Trim(fieldValue.text)) > 0

(***************************************************************************)
(* Hashes: sha256(JSON.stringify(v)) as an injective wrapper of v.         *)
(***************************************************************************)
Sha256(v) == <<"sha256", v>>

\* ServerIncrementalTranslationService.generateFieldHashes
ServiceGenerateFieldHashes(entry) ==
  [f \in {g \in DOMAIN entry.fields :
            ServiceIsTranslatableField(g, entry.fields[g])} |->
     Sha256(entry.fields[f])]

\* ChangeDetectionService.generateFieldHashes
DetectionGenerateFieldHashes(entry) ==
  [f \in {g \in DOMAIN entry.fields :
            DetectionIsTranslatableField(g, entry.fields[g])} |->
     Sha256(entry.fields[f])]

\* DeepReferenceTracker.generateFieldHashes: every field is hashed
TrackerGenerateFieldHashes(entry) ==
  [f \in DOMAIN entry.fields |-> Sha256(entry.fields[f])]

\* DeepReferenceTracker.generateContentHash
generateContentHash(entry) ==
  Sha256([f \in {g \in DOMAIN entry.fields :
                   TrackerIsTranslatableField(g, entry.fields[g])} |->
            entry.fields[f]])

(***************************************************************************)
(* ServerContentfulCloneService: the recursive first clone.                *)
(* The service instance is a record                                        *)
(*   cms            the entries of the environment                         *)
(*   cloneMap       this.cloneMap                                          *)
(*   processingSet  this.processingSet                                     *)
(*   nextId         the id the CMS gives to the next created entry         *)
(*   targetLanguage this.translationConfig.targetLanguage                  *)
(*   mainLanguage   this.mainCmsPageSourceLanguage                         *)
(* and, as a record of what happened during the run,                       *)
(*   stack          source ids whose cloneEntryRecursive has not returned  *)
(*   entered        source ids in the order their clone bodies were run    *)
(*   sets           the cloneMap.set(key, id) calls in order               *)
(*   reentered      a clone body was run for an id already on the stack    *)
(*   calls/diverged the number of clone bodies run, and whether the run    *)
(*                  was cut at MaxCalls                                    *)
(* and, as the conditions the run meets (env),                             *)
(*   translatorOk   the calls of the translator succeed                    *)
(*   failFetch      the ids of the entries whose getEntry fails            *)
(*   failCreate     the ids of the source entries for whose clone          *)
(*                  createEntry fails                                      *)
(***************************************************************************)
\* the conditions under which every call succeeds
AllWell == [translatorOk |-> TRUE, failFetch |-> {}, failCreate |-> {}]

NewCloneRunIn(env, cms, nextId, targetLanguage) ==
  [cms |-> cms, cloneMap |-> NoFunction, processingSet |-> {},
   nextId |-> nextId, targetLanguage |-> ToLowerCase(targetLanguage),
   mainLanguage |-> "", stack |-> <<>>, entered |-> <<>>, sets |-> <<>>,
   reentered |-> FALSE, calls |-> 0, diverged |-> FALSE, env |-> env]

NewCloneRun(cms, nextId, targetLanguage) ==
  NewCloneRunIn(AllWell, cms, nextId, targetLanguage)

NewEntryId(n) == "T" \o ToString(n)

EntryKey(id) == "Entry:" \o id

LinkKey(link) == link.linkType \o ":" \o link.id

AlreadyCloned_Mut(cloneMap, key) == FALSE

\* this.cloneMap.has(key)
AlreadyCloned(cloneMap, key) == key \in DOMAIN cloneMap

\* this.processingSet.has(key)
InProcess(processingSet, key) == key \in processingSet

\* the per-locale body of the field loop of cloneEntryRecursive for a string
CloneTextField(translatorOk, ctype, fieldId, text, prefixFieldIds, detected, targetLanguage) ==
  LET prefixed == IF fieldId \in prefixFieldIds
                  THEN CLONE_PREFIX \o " " \o text
                  ELSE text
  IN IF isCultureField(fieldId)
     THEN (IF getCultureValue(targetLanguage) # ""
           THEN getCultureValue(targetLanguage)
           ELSE prefixed)
     ELSE IF isMarkdownField(ctype, fieldId) /\ detected # ""
     THEN MarkdownContent(translatorOk, translatorOk, prefixed, detected,
                          targetLanguage)
     ELSE IF ~isMarkdownField(ctype, fieldId)
     THEN CloneTranslateText(translatorOk, prefixed, SchemaType(fieldId),
                             detected, targetLanguage)
     ELSE prefixed

getEmptyValueForField(fieldId) ==
  IF SchemaType(fieldId) = "Array" THEN LinksValue(<<>>) ELSE TextValue("")

RECURSIVE cloneEntryRecursive(_, _, _)
RECURSIVE CloneFields(_, _, _, _, _)
RECURSIVE processFieldValue(_, _, _, _)
RECURSIVE processLinkField(_, _, _)

\* the end of cloneEntryRecursive, with the run and the field data r the
\* field loop left: createEntry, which fails for the sources of failCreate,
\* and cloneMap.set
CreateEntry(r, sourceId, ctype) ==
  IF sourceId \in r.run.env.failCreate
  THEN [run |-> [r.run EXCEPT !.stack = SubSeq(@, 1, Len(@) - 1)],
        id |-> "", ok |-> FALSE]
  ELSE [run |-> [r.run EXCEPT
                   !.cms = Put(@, NewEntryId(r.run.nextId),
                               [ctype |-> ctype, version |-> 1,
                                published |-> 0, fields |-> r.data]),
                   !.nextId = @ + 1,
                   !.cloneMap = Put(@, EntryKey(sourceId),
                                    NewEntryId(r.run.nextId)),
                   !.sets = Append(@, <<EntryKey(sourceId),
                                        NewEntryId(r.run.nextId)>>),
                   !.stack = SubSeq(@, 1, Len(@) - 1)],
        id |-> NewEntryId(r.run.nextId), ok |-> TRUE]

\* cloneEntryRecursive(sourceEntry): the target id, and the service after
\* it; ok = FALSE is the error of createEntry it throws
cloneEntryRecursive(run, sourceId, sourceEntry) ==
  LET key == EntryKey(sourceId)
  IN IF AlreadyCloned(run.cloneMap, key)
     THEN [run |-> run, id |-> run.cloneMap[key], ok |-> TRUE]
     ELSE IF run.calls >= MaxCalls
     THEN [run |-> [run EXCEPT !.diverged = TRUE], id |-> sourceId, ok |-> TRUE]
     ELSE
       LET started == [run EXCEPT
                         !.calls = @ + 1,
                         !.reentered = @ \/ SeqContains(run.stack, sourceId),
                         !.stack = Append(@, sourceId),
                         !.entered = Append(@, sourceId)]
           detected == IF sourceEntry.ctype = "cmsPage"
                       THEN detectSourceLocaleFromEntry(sourceEntry.fields)
                       ELSE run.mainLanguage
       IN CreateEntry(CloneFields(started, sourceEntry,
                                  SchemaFields(sourceEntry.ctype), detected,
                                  NoFunction),
                      sourceId, sourceEntry.ctype)

\* the field loop of cloneEntryRecursive, over the remaining schema fields
CloneFields(run, sourceEntry, fieldIds, detected, data) ==
  IF fieldIds = <<>>
  THEN [run |-> run, data |-> data]
  ELSE
    LET fieldId == Head(fieldIds)
        rest == Tail(fieldIds)
        value == sourceEntry.fields[fieldId]
        prefixFieldIds == findPrefixFields(sourceEntry.ctype, sourceEntry.fields)
    IN IF fieldId \notin DOMAIN sourceEntry.fields
       THEN CloneFields(run, sourceEntry, rest, detected, data)
       ELSE IF shouldEmptyField(fieldId)
       THEN CloneFields(run, sourceEntry, rest, detected,
                        Put(data, fieldId, getEmptyValueForField(fieldId)))
       ELSE IF IsLinks(value)
       THEN LET p == processFieldValue(run, fieldId, value.links, <<>>)
            IN CloneFields(p.run, sourceEntry, rest, detected,
                           Put(data, fieldId, LinksValue(p.links)))
       ELSE IF shouldCopyAsIs(fieldId)
       THEN CloneFields(run, sourceEntry, rest, detected,
                        Put(data, fieldId, value))
       ELSE CloneFields(run, sourceEntry, rest, detected,
                        Put(data, fieldId,
                            TextValue(CloneTextField(run.env.translatorOk,
                                        sourceEntry.ctype, fieldId,
                                        value.text, prefixFieldIds, detected,
                                        run.targetLanguage))))

\* processFieldValue on an array of links: each link through processLinkField
processFieldValue(run, fieldId, links, done) ==
  IF links = <<>>
  THEN [run |-> run, links |-> done]
  ELSE LET p == processLinkField(run, fieldId, Head(links))
       IN processFieldValue(p.run, fieldId, Tail(links), Append(done, p.link))

\* findExistingAuthor: the author entry of the target culture with the name
\* of authorEntry (the first item of the query), or "" (null)
findExistingAuthor(cms, authorEntry, targetCulture) ==
  LET hits == {id \in DOMAIN cms :
                 /\ cms[id].ctype = "author"
                 /\ "locale" \in DOMAIN cms[id].fields
                 /\ cms[id].fields["locale"] = TextValue(targetCulture)
                 /\ "name" \in DOMAIN cms[id].fields
                 /\ cms[id].fields["name"] = authorEntry.fields["name"]}
  IN IF /\ "name" \in DOMAIN authorEntry.fields
        /\ IsText(authorEntry.fields["name"])
        /\ authorEntry.fields["name"].text # ""
        /\ hits # {}
     THEN CHOOSE id \in hits : TRUE
     ELSE ""

\* a catch block that records the link it could not process as cloned
LinkFailed_Mut(run, linkValue) ==
  [run |-> [run EXCEPT !.cloneMap = Put(@, LinkKey(linkValue), linkValue.id)],
   link |-> linkValue]

\* the catch block of processLinkField: the link is returned as it is and
\* nothing is recorded for it
LinkFailed(run, linkValue) == [run |-> run, link |-> linkValue]

\* the author of the target culture to link instead of the author linkValue
\* names, or "" (the field is no author field, or there is none)
ExistingAuthor(run, fieldId, linkValue) ==
  IF /\ isAuthorField(fieldId)
     /\ run.cms[linkValue.id].ctype = "author"
     /\ getCultureValue(run.targetLanguage) # ""
  THEN findExistingAuthor(run.cms, run.cms[linkValue.id],
                          getCultureValue(run.targetLanguage))
  ELSE ""

\* the end of processLinkField after the clone c of the linked entry
Linked(c, key, linkValue) ==
  IF c.ok
  THEN [run |-> [c.run EXCEPT !.processingSet = @ \ {key}],
        link |-> EntryLink(c.id)]
  ELSE LinkFailed([c.run EXCEPT !.processingSet = @ \ {key}], linkValue)

\* processLinkField for a fetched entry: the link to the existing author, or
\* to the clone of the entry
LinkEntry(run, key, linkValue, existingAuthorId) ==
  IF existingAuthorId # ""
  THEN [run |-> [run EXCEPT !.cloneMap = Put(@, key, existingAuthorId),
                            !.sets = Append(@, <<key, existingAuthorId>>)],
        link |-> EntryLink(existingAuthorId)]
  ELSE Linked(cloneEntryRecursive(
                [run EXCEPT !.processingSet = @ \cup {key}],
                linkValue.id, run.cms[linkValue.id]),
              key, linkValue)

\* processLinkField(linkValue, locale, fieldId): the link to write, and the
\* service after it; an error of getEntry or of the clone of the linked entry
\* is caught and the link returned as it is
processLinkField(run, fieldId, linkValue) ==
  IF AlreadyCloned(run.cloneMap, LinkKey(linkValue))
  THEN [run |-> run,
        link |-> [linkType |-> linkValue.linkType,
                  id |-> run.cloneMap[LinkKey(linkValue)]]]
  ELSE IF InProcess(run.processingSet, LinkKey(linkValue))
  THEN [run |-> run, link |-> linkValue]
  ELSE IF linkValue.linkType = "Asset"
  THEN [run |-> [run EXCEPT
                   !.cloneMap = Put(@, LinkKey(linkValue), linkValue.id),
                   !.sets = Append(@, <<LinkKey(linkValue), linkValue.id>>)],
        link |-> linkValue]
  ELSE IF linkValue.id \notin DOMAIN run.cms \/ linkValue.id \in run.env.failFetch
  THEN LinkFailed(run, linkValue)
  ELSE LinkEntry(run, LinkKey(linkValue), linkValue,
                 ExistingAuthor(run, fieldId, linkValue))

\* what cloneEntry returns after the clone c of the source entry
CloneResult(c) == [ok |-> c.ok, run |-> c.run, clonedEntryId |-> c.id]

\* cloneEntry that does not validate the source entry
cloneEntryIn_Mut(env, cms, nextId, sourceEntryId, targetLanguage) ==
  IF sourceEntryId \notin DOMAIN cms
  THEN [ok |-> FALSE,
        run |-> NewCloneRunIn(env, cms, nextId, targetLanguage),
        clonedEntryId |-> ""]
  ELSE CloneResult(cloneEntryRecursive(
                     NewCloneRunIn(env, cms, nextId, targetLanguage),
                     sourceEntryId, cms[sourceEntryId]))

\* cloneEntry({sourceEntryId, targetLanguage}) under the conditions env;
\* ok = FALSE when it throws
cloneEntryIn(env, cms, nextId, sourceEntryId, targetLanguage) ==
  IF sourceEntryId \notin DOMAIN cms \/ sourceEntryId \in env.failFetch
  THEN [ok |-> FALSE,
        run |-> NewCloneRunIn(env, cms, nextId, targetLanguage),
        clonedEntryId |-> ""]
  ELSE IF \/ cms[sourceEntryId].ctype # "cmsPage"
          \/ detectSourceLocaleFromEntry(cms[sourceEntryId].fields) = ""
  THEN [ok |-> FALSE,
        run |-> NewCloneRunIn(env, cms, nextId, targetLanguage),
        clonedEntryId |-> ""]
  ELSE CloneResult(cloneEntryRecursive(
                     [NewCloneRunIn(env, cms, nextId, targetLanguage)
                        EXCEPT !.mainLanguage =
                          detectSourceLocaleFromEntry(
                            cms[sourceEntryId].fields)],
                     sourceEntryId, cms[sourceEntryId]))

\* cloneEntry when every call succeeds
cloneEntry(cms, nextId, sourceEntryId, targetLanguage) ==
  cloneEntryIn(AllWell, cms, nextId, sourceEntryId, targetLanguage)

(***************************************************************************)
(* DeepReferenceTracker: the reference tree of a source entry.             *)
(* An optional value (null or a value) is <<>> or <<value>>.               *)
(***************************************************************************)
MAX_DEPTH == 3

Null == <<>>

Some(v) == <<v>>

IsNull(o) == o = <<>>

\* DeepReferenceTracker.isReferenceField: some item of the array is a link
isReferenceField(value) == IsLinks(value) /\ Len(value.links) > 0

shouldTrackReferenceField(fieldName) ==
  ~(\E d \in {"parentPage", "authors", "sys", "contentfulMetadata",
              "makeModel", "makeIds", "modelIds", "trackingName",
              "internalName", "fieldStatus", "automationTags", "culture",
              "domain", "pageType"} : StartsWith(fieldName, d))

isAssetReference(ref) == ref.linkType = "Asset"

RECURSIVE buildReferenceTree(_, _, _, _, _)
RECURSIVE TreeOfFields(_, _, _, _)
RECURSIVE TreeOfLinks(_, _, _, _, _)

\* buildReferenceTree that still scans the references of a node at maxDepth
buildReferenceTree_Mut(cms, entryId, currentDepth, parentId, parentField) ==
  [id |-> entryId,
   version |-> EffectiveVersion(cms[entryId]),
   depth |-> currentDepth,
   parentId |-> parentId,
   parentField |-> parentField,
   contentHash |-> generateContentHash(cms[entryId]),
   children |-> IF currentDepth <= MAX_DEPTH
                THEN TreeOfFields(cms, entryId, currentDepth,
                                  FieldsOf(cms[entryId]))
                ELSE <<>>]

\* buildReferenceTree(entry, currentDepth, parentId, parentField)
buildReferenceTree(cms, entryId, currentDepth, parentId, parentField) ==
  [id |-> entryId,
   version |-> EffectiveVersion(cms[entryId]),
   depth |-> currentDepth,
   parentId |-> parentId,
   parentField |-> parentField,
   contentHash |-> generateContentHash(cms[entryId]),
   children |-> IF currentDepth < MAX_DEPTH
                THEN TreeOfFields(cms, entryId, currentDepth,
                                  FieldsOf(cms[entryId]))
                ELSE <<>>]

\* the loop of buildReferenceTree over the fields of the entry
TreeOfFields(cms, entryId, currentDepth, fieldIds) ==
  IF fieldIds = <<>>
  THEN <<>>
  ELSE LET fieldId == Head(fieldIds)
           value == cms[entryId].fields[fieldId]
           here == IF isReferenceField(value) /\ shouldTrackReferenceField(fieldId)
                   THEN TreeOfLinks(cms, entryId, currentDepth, fieldId,
                                    value.links)
                   ELSE <<>>
       IN here \o TreeOfFields(cms, entryId, currentDepth, Tail(fieldIds))

\* the loop of buildReferenceTree over the references of one field
TreeOfLinks(cms, entryId, currentDepth, fieldId, refs) ==
  IF refs = <<>>
  THEN <<>>
  ELSE LET ref == Head(refs)
           here == IF /\ ref.id # entryId
                      /\ ~isAssetReference(ref)
                      /\ ref.id \in DOMAIN cms
                   THEN <<buildReferenceTree(cms, ref.id, currentDepth + 1,
                                             entryId, fieldId)>>
                   ELSE <<>>
       IN here \o TreeOfLinks(cms, entryId, currentDepth, fieldId, Tail(refs))

\* flattened[node.id] = node: a later node of the same id replaces the earlier
FlatPut(flattened, node) ==
  IF \E i \in DOMAIN flattened : flattened[i].id = node.id
  THEN [i \in DOMAIN flattened |->
          IF flattened[i].id = node.id THEN node ELSE flattened[i]]
  ELSE Append(flattened, node)

RECURSIVE AddNode(_, _)
RECURSIVE AddNodes(_, _)

AddNode(flattened, node) ==
  AddNodes(FlatPut(flattened, [node EXCEPT !.children = <<>>]), node.children)

AddNodes(flattened, nodes) ==
  IF nodes = <<>>
  THEN flattened
  ELSE AddNodes(AddNode(flattened, Head(nodes)), Tail(nodes))

\* flattenReferenceTree: id -> node, as the sequence of nodes in key order
flattenReferenceTree(tree) == AddNode(<<>>, tree)

FlatIds(flattened) == {flattened[i].id : i \in DOMAIN flattened}

FlatGet(flattened, id) ==
  flattened[CHOOSE i \in DOMAIN flattened : flattened[i].id = id]

\* buildCurrentReferenceMapForComparison: the map, not stored
buildCurrentReferenceMapForComparison(cms, sourceEntryId, targetEntryId) ==
  LET referenceTree == buildReferenceTree(cms, sourceEntryId, 0, "", "")
  IN [sourceEntryId |-> sourceEntryId,
      targetEntryId |-> targetEntryId,
      maxDepth |-> MAX_DEPTH,
      referenceTree |-> referenceTree,
      flattenedRefs |-> flattenReferenceTree(referenceTree)]

(***************************************************************************)
(* ContentfulMetadataService: relationships as translationMetadata entries *)
(* of the CMS (the primary store).  meta is the sequence of those entries. *)
(***************************************************************************)
\* data.name || null, for a property the object may not have
Field(data, name) == IF name \in DOMAIN data THEN data[name] ELSE Null

generateRelationshipId(sourceEntryId, targetEntryId) ==
  sourceEntryId \o "_" \o targetEntryId

\* findRelationshipMetadata: the index of the first matching entry, or 0
findRelationshipMetadata(meta, sourceEntryId, targetEntryId) ==
  LET hits == {i \in DOMAIN meta :
                 meta[i].relationshipId =
                   generateRelationshipId(sourceEntryId, targetEntryId)}
  IN IF hits = {} THEN 0 ELSE CHOOSE i \in hits : \A j \in hits : i <= j

\* the fields written by storeRelationshipMetadata, on update and on create
MetadataFields(sourceEntryId, targetEntryId, data) ==
  [relationshipId |-> generateRelationshipId(sourceEntryId, targetEntryId),
   sourceEntryId |-> sourceEntryId,
   targetEntryId |-> targetEntryId,
   translationContext |-> data.translationContext,
   metadata |-> data.metadata,
   fieldHashes |-> data.fieldHashes,
   cloneMapping |-> data.cloneMapping,
   deepReferenceMap |-> Field(data, "deepReferenceMap"),
   backupData |-> Field(data, "backupData")]

storeRelationshipMetadata(meta, sourceEntryId, targetEntryId, data) ==
  LET existing == findRelationshipMetadata(meta, sourceEntryId, targetEntryId)
      fields == MetadataFields(sourceEntryId, targetEntryId, data)
  IN IF existing # 0
     THEN [meta EXCEPT ![existing] = fields]
     ELSE Append(meta, fields)

getRelationshipMetadata(meta, sourceEntryId, targetEntryId) ==
  LET i == findRelationshipMetadata(meta, sourceEntryId, targetEntryId)
  IN IF i = 0
     THEN Null
     ELSE Some([sourceEntryId |-> meta[i].sourceEntryId,
                targetEntryId |-> meta[i].targetEntryId,
                translationContext |-> meta[i].translationContext,
                metadata |-> meta[i].metadata,
                fieldHashes |-> meta[i].fieldHashes,
                cloneMapping |-> meta[i].cloneMapping,
                deepReferenceMap |-> meta[i].deepReferenceMap,
                backupData |-> meta[i].backupData])

\* ContentfulMetadataService.storeDeepReferenceMap
MetadataStoreDeepReferenceMap(meta, sourceEntryId, targetEntryId, deepMap, now) ==
  LET existingData == getRelationshipMetadata(meta, sourceEntryId, targetEntryId)
      minimalData ==
        [sourceEntryId |-> sourceEntryId,
         targetEntryId |-> targetEntryId,
         metadata |-> [lastTranslatedVersion |-> 0, lastUpdated |-> now,
                       createdAt |-> now],
         translationContext |-> [sourceLanguage |-> "unknown",
                                 targetLanguage |-> "unknown"],
         fieldHashes |-> NoFunction,
         cloneMapping |-> NoFunction,
         deepReferenceMap |-> Some(deepMap)]
  IN IF ~IsNull(existingData)
     THEN storeRelationshipMetadata(meta, sourceEntryId, targetEntryId,
            [existingData[1] EXCEPT !.deepReferenceMap = Some(deepMap)])
     ELSE storeRelationshipMetadata(meta, sourceEntryId, targetEntryId,
                                    minimalData)

getDeepReferenceMap(meta, sourceEntryId, targetEntryId) ==
  LET data == getRelationshipMetadata(meta, sourceEntryId, targetEntryId)
  IN IF IsNull(data) THEN Null ELSE data[1].deepReferenceMap

(***************************************************************************)
(* The tracking directory (the fallback store): files by name.             *)
(***************************************************************************)
RelationshipFile(sourceEntryId, targetEntryId) ==
  sourceEntryId \o "_" \o targetEntryId \o ".json"

DeepRefsFile(sourceEntryId, targetEntryId) ==
  sourceEntryId \o "_" \o targetEntryId \o "_deep_refs.json"

EndsWith(s, suffix) ==
  Len(s) >= Len(suffix) /\ SubSeq(s, Len(s) - Len(suffix) + 1, Len(s)) = suffix

\* ServerIncrementalTranslationService.getRelationship
getRelationship(meta, files, sourceEntryId, targetEntryId) ==
  LET data == getRelationshipMetadata(meta, sourceEntryId, targetEntryId)
      filename == RelationshipFile(sourceEntryId, targetEntryId)
  IN IF ~IsNull(data)
     THEN data
     ELSE IF filename \notin DOMAIN files
     THEN Null
     ELSE IF "referenceTree" \in DOMAIN files[filename]
     THEN Null
     ELSE IF \/ "metadata" \notin DOMAIN files[filename]
             \/ files[filename].metadata.lastTranslatedVersion = 0
     THEN Null
     ELSE Some(files[filename])

\* createOrUpdateRelationship: the primary store takes the write
createOrUpdateRelationship(meta, sourceEntryId, targetEntryId, lastTranslatedVersion, translationContext, fieldHashes, cloneMapping, now) ==
  storeRelationshipMetadata(meta, sourceEntryId, targetEntryId,
    [sourceEntryId |-> sourceEntryId,
     targetEntryId |-> targetEntryId,
     metadata |-> [lastTranslatedVersion |-> lastTranslatedVersion,
                   lastUpdated |-> now, createdAt |-> now],
     translationContext |-> translationContext,
     fieldHashes |-> fieldHashes,
     cloneMapping |-> cloneMapping])

\* updateCloneMapping: the primary store and the relationship file
updateCloneMapping(meta, files, sourceEntryId, targetEntryId, updatedCloneMapping) ==
  LET found == getRelationship(meta, files, sourceEntryId, targetEntryId)
      relationship == [found[1] EXCEPT !.cloneMapping = updatedCloneMapping]
  IN IF IsNull(found)
     THEN [meta |-> meta, files |-> files]
     ELSE [meta |-> storeRelationshipMetadata(meta, sourceEntryId,
                                              targetEntryId, relationship),
           files |-> Put(files, RelationshipFile(sourceEntryId, targetEntryId),
                         relationship)]

\* DeepReferenceTracker.storeDeepReferenceMap: the primary store takes it
storeDeepReferenceMap(meta, sourceEntryId, targetEntryId, deepMap, now) ==
  MetadataStoreDeepReferenceMap(meta, sourceEntryId, targetEntryId, deepMap, now)

\* DeepReferenceTracker.getStoredDeepReferenceMap
getStoredDeepReferenceMap(meta, files, sourceEntryId, targetEntryId) ==
  LET deepMap == getDeepReferenceMap(meta, sourceEntryId, targetEntryId)
      deepMapFile == DeepRefsFile(sourceEntryId, targetEntryId)
  IN IF ~IsNull(deepMap)
     THEN deepMap
     ELSE IF deepMapFile \in DOMAIN files
     THEN Some(files[deepMapFile])
     ELSE Null

(***************************************************************************)
(* The stores when calls of the primary store fail.  queryOk is whether    *)
(* the getEntries query of findRelationshipMetadata succeeded, writeOk     *)
(* whether getEntry and update (or createEntry) did.                       *)
(***************************************************************************)
\* findRelationshipMetadata: a failed query is caught and answers null
findRelationshipMetadataIf(queryOk, meta, sourceEntryId, targetEntryId) ==
  IF queryOk
  THEN findRelationshipMetadata(meta, sourceEntryId, targetEntryId)
  ELSE 0

\* storeRelationshipMetadata: ok = FALSE is the error it throws
storeRelationshipMetadataIf(queryOk, writeOk, meta, sourceEntryId, targetEntryId, data) ==
  LET existing == findRelationshipMetadataIf(queryOk, meta, sourceEntryId,
                                             targetEntryId)
      fields == MetadataFields(sourceEntryId, targetEntryId, data)
  IN IF ~writeOk
     THEN [ok |-> FALSE, meta |-> meta]
     ELSE [ok |-> TRUE,
           meta |-> IF existing # 0
                    THEN [meta EXCEPT ![existing] = fields]
                    ELSE Append(meta, fields)]

\* getRelationshipMetadata: without an entry found it answers null
getRelationshipMetadataIf(queryOk, meta, sourceEntryId, targetEntryId) ==
  IF queryOk
  THEN getRelationshipMetadata(meta, sourceEntryId, targetEntryId)
  ELSE Null

\* getRelationship: without an answer of the primary store, the file
getRelationshipIf(queryOk, meta, files, sourceEntryId, targetEntryId) ==
  IF queryOk
  THEN getRelationship(meta, files, sourceEntryId, targetEntryId)
  ELSE getRelationship(<<>>, files, sourceEntryId, targetEntryId)

\* createOrUpdateRelationship: the primary store, or else the relationship
\* file with the createdAt of the file that exists
createOrUpdateRelationshipIf(queryOk, writeOk, meta, files, sourceEntryId, targetEntryId, lastTranslatedVersion, translationContext, fieldHashes, cloneMapping, now) ==
  LET relationshipData ==
        [sourceEntryId |-> sourceEntryId,
         targetEntryId |-> targetEntryId,
         metadata |-> [lastTranslatedVersion |-> lastTranslatedVersion,
                       lastUpdated |-> now, createdAt |-> now],
         translationContext |-> translationContext,
         fieldHashes |-> fieldHashes,
         cloneMapping |-> cloneMapping]
      stored == storeRelationshipMetadataIf(queryOk, writeOk, meta,
                  sourceEntryId, targetEntryId, relationshipData)
      filename == RelationshipFile(sourceEntryId, targetEntryId)
      createdAt == IF filename \in DOMAIN files
                   THEN files[filename].metadata.createdAt
                   ELSE now
  IN IF stored.ok
     THEN [meta |-> stored.meta, files |-> files]
     ELSE [meta |-> meta,
           files |-> Put(files, filename,
                         [relationshipData EXCEPT
                            !.metadata.createdAt = createdAt])]

\* ContentfulMetadataService.storeDeepReferenceMap: getOk is whether the
\* query of its getRelationshipMetadata succeeded
MetadataStoreDeepReferenceMapIf(getOk, queryOk, writeOk, meta, sourceEntryId, targetEntryId, deepMap, now) ==
  LET existingData == getRelationshipMetadataIf(getOk, meta, sourceEntryId,
                                                targetEntryId)
      minimalData ==
        [sourceEntryId |-> sourceEntryId,
         targetEntryId |-> targetEntryId,
         metadata |-> [lastTranslatedVersion |-> 0, lastUpdated |-> now,
                       createdAt |-> now],
         translationContext |-> [sourceLanguage |-> "unknown",
                                 targetLanguage |-> "unknown"],
         fieldHashes |-> NoFunction,
         cloneMapping |-> NoFunction,
         deepReferenceMap |-> Some(deepMap)]
  IN storeRelationshipMetadataIf(queryOk, writeOk, meta, sourceEntryId,
       targetEntryId,
       IF ~IsNull(existingData)
       THEN [existingData[1] EXCEPT !.deepReferenceMap = Some(deepMap)]
       ELSE minimalData)

\* DeepReferenceTracker.storeDeepReferenceMap: the primary store, or else the
\* deep references file
storeDeepReferenceMapIf(getOk, queryOk, writeOk, meta, files, sourceEntryId, targetEntryId, deepMap, now) ==
  LET stored == MetadataStoreDeepReferenceMapIf(getOk, queryOk, writeOk, meta,
                  sourceEntryId, targetEntryId, deepMap, now)
  IN IF stored.ok
     THEN [meta |-> stored.meta, files |-> files]
     ELSE [meta |-> meta,
           files |-> Put(files, DeepRefsFile(sourceEntryId, targetEntryId),
                         deepMap)]

(***************************************************************************)
(* Change detection.                                                       *)
(***************************************************************************)
\* getRelationshipForChildEntry: a relationship file of the directory (not of
\* backups/) whose clone mapping names the entry (the model keeps one
\* relationship file)
getRelationshipForChildEntry(files, entryId) ==
  LET hits == {name \in DOMAIN files :
                 /\ EndsWith(name, ".json")
                 /\ ~Includes(name, "/")
                 /\ ~Includes(name, "_deep_refs")
                 /\ "cloneMapping" \in DOMAIN files[name]
                 /\ \E k \in DOMAIN files[name].cloneMapping :
                      \/ Includes(k, entryId)
                      \/ files[name].cloneMapping[k] = entryId}
  IN IF hits = {} THEN Null ELSE Some(files[CHOOSE name \in hits : TRUE])

RECURSIVE ChildFieldChanges(_, _, _, _)
\* the loop of detectChildEntryFieldChanges over the current field hashes
ChildFieldChanges(currentEntry, currentFieldHashes, storedFieldHashes, fieldIds) ==
  IF fieldIds = <<>>
  THEN <<>>
  ELSE LET fieldName == Head(fieldIds)
           known == fieldName \in DOMAIN storedFieldHashes
           differs == ~known
                      \/ currentFieldHashes[fieldName] # storedFieldHashes[fieldName]
           fieldValue == currentEntry.fields[fieldName]
           here == IF differs
                   THEN <<[fieldName |-> fieldName,
                           changeType |-> IF known THEN "modified" ELSE "added",
                           newValue |-> fieldValue,
                           needsTranslation |->
                             isFieldTranslatable(fieldName, fieldValue)]>>
                   ELSE <<>>
       IN here \o ChildFieldChanges(currentEntry, currentFieldHashes,
                                    storedFieldHashes, Tail(fieldIds))

detectChildEntryFieldChanges(cms, files, entryId) ==
  IF entryId \notin DOMAIN cms
  THEN <<>>
  ELSE LET relationship == getRelationshipForChildEntry(files, entryId)
           storedFieldHashes == IF IsNull(relationship)
                                THEN NoFunction
                                ELSE relationship[1].fieldHashes
       IN ChildFieldChanges(cms[entryId], TrackerGenerateFieldHashes(cms[entryId]),
                            storedFieldHashes, FieldsOf(cms[entryId]))

RECURSIVE CompareRefs(_, _, _, _, _)
\* the loop of detectDeepReferenceChanges over the current references
CompareRefs(cms, files, sourceEntryId, storedRefs, currentRefs) ==
  IF currentRefs = <<>>
  THEN [changedReferences |-> <<>>, newReferences |-> <<>>]
  ELSE
    LET currentRef == Head(currentRefs)
        rest == CompareRefs(cms, files, sourceEntryId, storedRefs,
                            Tail(currentRefs))
        storedRef == FlatGet(storedRefs, currentRef.id)
    IN IF currentRef.id \in FlatIds(storedRefs)
       THEN IF \/ currentRef.version > storedRef.version
               \/ currentRef.contentHash # storedRef.contentHash
            THEN [rest EXCEPT !.changedReferences =
                    <<[id |-> currentRef.id,
                       type |-> "changed",
                       depth |-> currentRef.depth,
                       parentField |-> currentRef.parentField,
                       fieldChanges |->
                         detectChildEntryFieldChanges(cms, files, currentRef.id)]>>
                    \o @]
            ELSE rest
       ELSE [rest EXCEPT !.newReferences =
               <<[id |-> currentRef.id,
                  type |-> "new",
                  depth |-> currentRef.depth,
                  parentField |-> IF currentRef.parentField = ""
                                  THEN "unknown"
                                  ELSE currentRef.parentField,
                  fieldChanges |-> <<>>]>>
               \o @]

RECURSIVE AllNew(_, _)
\* without a stored map every current reference but the source is new
AllNew(sourceEntryId, currentRefs) ==
  IF currentRefs = <<>>
  THEN <<>>
  ELSE (IF Head(currentRefs).id # sourceEntryId
        THEN <<[id |-> Head(currentRefs).id,
                type |-> "new",
                depth |-> Head(currentRefs).depth,
                parentField |-> IF Head(currentRefs).parentField = ""
                                THEN "unknown"
                                ELSE Head(currentRefs).parentField,
                fieldChanges |-> <<>>]>>
        ELSE <<>>) \o AllNew(sourceEntryId, Tail(currentRefs))

RemovedRefs_Mut(storedRefs, currentRefs) == <<>>

RECURSIVE RemovedRefs(_, _)
\* the last loop of detectDeepReferenceChanges, over the stored references
RemovedRefs(storedRefs, currentRefs) ==
  IF storedRefs = <<>>
  THEN <<>>
  ELSE (IF Head(storedRefs).id \notin FlatIds(currentRefs)
        THEN <<Head(storedRefs).id>>
        ELSE <<>>) \o RemovedRefs(Tail(storedRefs), currentRefs)

\* detectDeepReferenceChanges: the changes, and the metadata entries after
\* it (it stores the current map when no map is stored: stored = TRUE)
detectDeepReferenceChanges(cms, meta, files, sourceEntryId, targetEntryId, now) ==
  LET storedMap == getStoredDeepReferenceMap(meta, files, sourceEntryId,
                                             targetEntryId)
      currentMap == buildCurrentReferenceMapForComparison(cms, sourceEntryId,
                                                          targetEntryId)
      compared == CompareRefs(cms, files, sourceEntryId,
                              storedMap[1].flattenedRefs,
                              currentMap.flattenedRefs)
  IN IF IsNull(storedMap)
     THEN [changedReferences |-> <<>>,
           newReferences |-> AllNew(sourceEntryId, currentMap.flattenedRefs),
           removedReferences |-> <<>>,
           stored |-> TRUE,
           meta |-> storeDeepReferenceMap(meta, sourceEntryId, targetEntryId,
                                          currentMap, now)]
     ELSE [changedReferences |-> compared.changedReferences,
           newReferences |-> compared.newReferences,
           removedReferences |-> RemovedRefs(storedMap[1].flattenedRefs,
                                             currentMap.flattenedRefs),
           stored |-> FALSE,
           meta |-> meta]

(***************************************************************************)
(* ChangeDetectionService.                                                 *)
(***************************************************************************)
RECURSIVE ModifiedFields(_, _, _, _)
\* the first loop of detectBasicFieldChanges, over the current field hashes
ModifiedFields(sourceEntry, currentFieldHashes, storedFieldHashes, fieldIds) ==
  IF fieldIds = <<>>
  THEN <<>>
  ELSE LET fieldName == Head(fieldIds)
           known == fieldName \in DOMAIN storedFieldHashes
           differs == ~known
                      \/ storedFieldHashes[fieldName] # currentFieldHashes[fieldName]
           here == IF /\ fieldName \in DOMAIN currentFieldHashes
                      /\ differs
                      /\ DetectionIsTranslatableField(fieldName,
                                                      sourceEntry.fields[fieldName])
                   THEN <<[fieldName |-> fieldName,
                           type |-> "field",
                           changeType |-> IF known THEN "modified" ELSE "added",
                           newValue |-> Some(sourceEntry.fields[fieldName]),
                           deepChanges |-> <<>>]>>
                   ELSE <<>>
       IN here \o ModifiedFields(sourceEntry, currentFieldHashes,
                                 storedFieldHashes, Tail(fieldIds))

RECURSIVE DeletedFields(_, _)
\* the second loop of detectBasicFieldChanges, over the stored field hashes
DeletedFields(currentFieldHashes, storedIds) ==
  IF storedIds = <<>>
  THEN <<>>
  ELSE (IF Head(storedIds) \notin DOMAIN currentFieldHashes
        THEN <<[fieldName |-> Head(storedIds),
                type |-> "field",
                changeType |-> "deleted",
                newValue |-> Null,
                deepChanges |-> <<>>]>>
        ELSE <<>>) \o DeletedFields(currentFieldHashes, Tail(storedIds))

detectBasicFieldChanges(sourceEntry, relationship) ==
  LET storedFieldHashes == IF IsNull(relationship)
                           THEN NoFunction
                           ELSE relationship[1].fieldHashes
      currentFieldHashes == DetectionGenerateFieldHashes(sourceEntry)
  IN ModifiedFields(sourceEntry, currentFieldHashes, storedFieldHashes,
                    FieldsOf(sourceEntry))
     \o DeletedFields(currentFieldHashes,
                      SelectSeqBy(SchemaFields(sourceEntry.ctype),
                                  DOMAIN storedFieldHashes))

fieldContainsReference(fieldValue, refId) ==
  IsLinks(fieldValue) /\ \E i \in DOMAIN fieldValue.links :
                            fieldValue.links[i].id = refId

RECURSIVE fieldContainsNestedReference(_, _, _, _, _)
fieldContainsNestedReference(cms, fieldValue, refId, currentDepth, maxDepth) ==
  /\ currentDepth < maxDepth
  /\ IsLinks(fieldValue)
  /\ \E i \in DOMAIN fieldValue.links :
       /\ fieldValue.links[i].id \in DOMAIN cms
       /\ \E f \in DOMAIN cms[fieldValue.links[i].id].fields :
            \/ fieldContainsReference(cms[fieldValue.links[i].id].fields[f],
                                      refId)
            \/ fieldContainsNestedReference(cms,
                 cms[fieldValue.links[i].id].fields[f], refId,
                 currentDepth + 1, maxDepth)

\* the first element of s that satisfies the set S, or "" (null)
FirstIn(s, S) ==
  IF \E i \in DOMAIN s : s[i] \in S
  THEN s[CHOOSE i \in DOMAIN s :
           s[i] \in S /\ \A j \in DOMAIN s : s[j] \in S => i <= j]
  ELSE ""

findFieldContainingReference(cms, sourceEntry, refId) ==
  LET direct == {f \in DOMAIN sourceEntry.fields :
                   fieldContainsReference(sourceEntry.fields[f], refId)}
      nested == {f \in DOMAIN sourceEntry.fields :
                   fieldContainsNestedReference(cms, sourceEntry.fields[f],
                                                refId, 1, 3)}
  IN IF direct # {}
     THEN FirstIn(FieldsOf(sourceEntry), direct)
     ELSE FirstIn(FieldsOf(sourceEntry), nested)

\* fieldChanges[fieldName].push(ref): groups keep the order of first use
GroupPut(groups, fieldName, ref) ==
  IF \E i \in DOMAIN groups : groups[i].fieldName = fieldName
  THEN [i \in DOMAIN groups |->
          IF groups[i].fieldName = fieldName
          THEN [groups[i] EXCEPT !.refs = Append(@, ref)]
          ELSE groups[i]]
  ELSE Append(groups, [fieldName |-> fieldName, refs |-> <<ref>>])

RECURSIVE groupReferencesByField(_, _, _, _)
\* groupReferenceChangesByField and groupNewReferencesByField
groupReferencesByField(cms, sourceEntry, refs, groups) ==
  IF refs = <<>>
  THEN groups
  ELSE LET containingField ==
             findFieldContainingReference(cms, sourceEntry, Head(refs).id)
       IN groupReferencesByField(cms, sourceEntry, Tail(refs),
            IF containingField # ""
            THEN GroupPut(groups, containingField, Head(refs))
            ELSE groups)

RECURSIVE groupRemovedReferencesByField(_, _, _)
groupRemovedReferencesByField(removedReferences, storedDeepRefs, groups) ==
  IF removedReferences = <<>>
  THEN groups
  ELSE LET refId == Head(removedReferences)
           storedRef == FlatGet(storedDeepRefs, refId)
       IN groupRemovedReferencesByField(Tail(removedReferences), storedDeepRefs,
            IF refId \in FlatIds(storedDeepRefs) /\ storedRef.parentField # ""
            THEN GroupPut(groups, storedRef.parentField,
                          [id |-> refId, type |-> "removed",
                           depth |-> storedRef.depth, parentField |-> "",
                           fieldChanges |-> <<>>])
            ELSE groups)

\* one 'enhanced-reference-field' change for each group
ReferenceFieldChanges(groups, changeType) ==
  [i \in DOMAIN groups |->
     [fieldName |-> groups[i].fieldName,
      type |-> "enhanced-reference-field",
      changeType |-> changeType,
      newValue |-> Null,
      deepChanges |-> groups[i].refs]]

\* the part of detectParentFieldChanges after the two detections: the changes
\* in order, and the metadata entries after the detection
ParentFieldChanges(cms, files, sourceEntry, sourceEntryId, targetEntryId, basicChanges, deep) ==
  LET storedDeepRefs == getStoredDeepReferenceMap(deep.meta, files,
                                                  sourceEntryId, targetEntryId)
      removedGroups ==
        IF deep.removedReferences # <<>> /\ ~IsNull(storedDeepRefs)
        THEN groupRemovedReferencesByField(deep.removedReferences,
                                           storedDeepRefs[1].flattenedRefs, <<>>)
        ELSE <<>>
      directRefChanges ==
        SelectSeq(deep.changedReferences \o deep.newReferences,
                  LAMBDA ref : ref.depth > 1)
  IN [changes |->
        basicChanges
        \o ReferenceFieldChanges(
             groupReferencesByField(cms, sourceEntry, deep.changedReferences,
                                    <<>>), "modified")
        \o ReferenceFieldChanges(
             groupReferencesByField(cms, sourceEntry, deep.newReferences, <<>>),
             "added")
        \o ReferenceFieldChanges(removedGroups, "deleted")
        \o (IF directRefChanges # <<>>
            THEN <<[fieldName |-> "direct-deep-references",
                    type |-> "direct-reference-translation",
                    changeType |-> "modified",
                    newValue |-> Null,
                    deepChanges |-> directRefChanges]>>
            ELSE <<>>),
      stored |-> deep.stored,
      meta |-> deep.meta]

detectParentFieldChanges(cms, meta, files, sourceEntry, sourceEntryId, targetEntryId, now) ==
  ParentFieldChanges(
    cms, files, sourceEntry, sourceEntryId, targetEntryId,
    detectBasicFieldChanges(sourceEntry,
      getRelationship(meta, files, sourceEntryId, targetEntryId)),
    detectDeepReferenceChanges(cms, meta, files, sourceEntryId, targetEntryId,
                               now))

(***************************************************************************)
(* The deep reference routes: each request builds a new service, whose     *)
(* change detection service starts without a tracker.                      *)
(***************************************************************************)
\* ChangeDetectionService constructor: this.deepReferenceTracker = null
NewServiceDeepReferenceTracker_Mut == Some("DeepReferenceTracker")

NewServiceDeepReferenceTracker == Null

\* DeepReferenceTracker.buildDeepReferenceMap: the metadata entries after it
buildDeepReferenceMap(cms, meta, sourceEntryId, targetEntryId, now) ==
  storeDeepReferenceMap(meta, sourceEntryId, targetEntryId,
    buildCurrentReferenceMapForComparison(cms, sourceEntryId, targetEntryId),
    now)

\* ChangeDetectionService.rebuildDeepReferenceMap
rebuildDeepReferenceMap(tracker, cms, meta, sourceEntryId, targetEntryId, now) ==
  IF IsNull(tracker) \/ sourceEntryId \notin DOMAIN cms
  THEN [success |-> FALSE, meta |-> meta]
  ELSE [success |-> TRUE,
        meta |-> buildDeepReferenceMap(cms, meta, sourceEntryId, targetEntryId,
                                       now)]

\* ChangeDetectionService.getDeepReferenceStatistics: totalReferences
getDeepReferenceStatistics(tracker, meta, files, sourceEntryId, targetEntryId) ==
  LET deepMap == getStoredDeepReferenceMap(meta, files, sourceEntryId,
                                           targetEntryId)
  IN IF IsNull(tracker) \/ IsNull(deepMap)
     THEN 0
     ELSE Len(deepMap[1].flattenedRefs)

(***************************************************************************)
(* ServerIncrementalTranslationService: applying the detected changes.     *)
(* The work of one update is a record                                      *)
(*   cms, meta, files, nextId   the CMS, the stores, the next entry id     *)
(*   targetEntry                the target entry object held by the update *)
(*   writes                     the CMS and store writes made so far       *)
(***************************************************************************)
Write(op, id) == [op |-> op, id |-> id]

\* entry.update(): the fields are written and the version grows by one
UpdateEntry(cms, id, entry) ==
  Put(cms, id, [entry EXCEPT !.version = cms[id].version + 1])

getCultureValueFromTargetLanguage(targetLanguage) ==
  IF CultureMapping(targetLanguage) # ""
  THEN CultureMapping(targetLanguage)
  ELSE targetLanguage

\* handleBasicFieldChange on an entry object: the object after it;
\* translatorOk is whether the call of the translator succeeds
handleBasicFieldChangeIn(translatorOk, entry, fieldName, newValue, translationContext) ==
  IF IsNull(newValue)
  THEN entry
  ELSE IF ~IsText(newValue[1])
  THEN entry
  ELSE IF Len(Trim(newValue[1].text)) = 0
  THEN entry
  ELSE [entry EXCEPT !.fields =
          Put(@, fieldName,
              TextValue(IncrementalTranslateTextIn(translatorOk,
                                                   newValue[1].text,
                                                   translationContext)))]

\* handleBasicFieldChange with a translator that works
handleBasicFieldChange(entry, fieldName, newValue, translationContext) ==
  handleBasicFieldChangeIn(TRUE, entry, fieldName, newValue,
                           translationContext)

\* translateEntryFields / translateFieldValue for one field
translateEntryField(fieldName, fieldValue, translationContext) ==
  IF fieldName = "culture"
  THEN TextValue(getCultureValueFromTargetLanguage(
                   translationContext.targetLanguage))
  ELSE IF ServiceIsTranslatableField(fieldName, fieldValue)
  THEN TextValue(IncrementalTranslateText(fieldValue.text, translationContext))
  ELSE fieldValue

\* cloneNewReference: one new entry, its fields translated or copied
cloneNewReference(work, sourceEntryId, translationContext) ==
  LET sourceEntry == work.cms[sourceEntryId]
      newId == NewEntryId(work.nextId)
      newEntry == [ctype |-> sourceEntry.ctype, version |-> 1, published |-> 0,
                   fields |-> [f \in DOMAIN sourceEntry.fields |->
                                 translateEntryField(f, sourceEntry.fields[f],
                                                     translationContext)]]
  IN IF sourceEntryId \notin DOMAIN work.cms
     THEN [work |-> work, id |-> ""]
     ELSE [work |-> [work EXCEPT !.cms = Put(@, newId, newEntry),
                                 !.nextId = @ + 1,
                                 !.writes = Append(@, Write("create", newId))],
           id |-> newId]

RECURSIVE TranslateFieldChanges(_, _, _)
\* the loop of translateChildEntry over the field changes of the child
TranslateFieldChanges(entry, fieldChanges, translationContext) ==
  IF fieldChanges = <<>>
  THEN [entry |-> entry, fieldsUpdated |-> 0]
  ELSE LET fieldChange == Head(fieldChanges)
           here == IF fieldChange.needsTranslation
                   THEN handleBasicFieldChange(entry, fieldChange.fieldName,
                          Some(fieldChange.newValue), translationContext)
                   ELSE entry
           rest == TranslateFieldChanges(here, Tail(fieldChanges),
                                         translationContext)
       IN [rest EXCEPT !.fieldsUpdated =
             @ + (IF fieldChange.needsTranslation THEN 1 ELSE 0)]

\* translateChildEntry(deepChange, translationContext)
translateChildEntry(work, deepChange, translationContext, sourceEntryId, targetEntryId) ==
  LET relationship == getRelationship(work.meta, work.files, sourceEntryId,
                                      targetEntryId)
      sourceKey == EntryKey(deepChange.id)
      mapped == sourceKey \in DOMAIN relationship[1].cloneMapping
      cloned == cloneNewReference(work, deepChange.id,
                                  relationship[1].translationContext)
      stored == updateCloneMapping(cloned.work.meta, cloned.work.files,
                  sourceEntryId, targetEntryId,
                  Put(relationship[1].cloneMapping, sourceKey, cloned.id))
      after == IF mapped
               THEN work
               ELSE [cloned.work EXCEPT
                       !.meta = stored.meta,
                       !.files = stored.files,
                       !.writes = Append(@, Write("cloneMapping", cloned.id))]
      targetChildEntryId == IF mapped
                            THEN relationship[1].cloneMapping[sourceKey]
                            ELSE cloned.id
      translated == TranslateFieldChanges(after.cms[targetChildEntryId],
                                          deepChange.fieldChanges,
                                          translationContext)
  IN IF deepChange.id \notin DOMAIN work.cms \/ IsNull(relationship)
     THEN work
     ELSE IF ~mapped /\ cloned.id = ""
     THEN work
     ELSE IF targetChildEntryId \notin DOMAIN after.cms
     THEN after
     ELSE IF translated.fieldsUpdated > 0
     THEN [after EXCEPT
             !.cms = UpdateEntry(@, targetChildEntryId, translated.entry),
             !.writes = Append(@, Write("update", targetChildEntryId))]
     ELSE after

\* extractReferencedEntries: the entry links of a field value
extractReferencedEntries(fieldValue) ==
  IF IsLinks(fieldValue)
  THEN SelectSeq(fieldValue.links, LAMBDA ref : ref.linkType = "Entry")
  ELSE <<>>

RECURSIVE MapReferences(_, _)
\* the loop of updateTargetReferenceField: unmapped references are left out
MapReferences(sourceReferences, cloneMapping) ==
  IF sourceReferences = <<>>
  THEN <<>>
  ELSE (IF EntryKey(Head(sourceReferences).id) \in DOMAIN cloneMapping
        THEN <<EntryLink(cloneMapping[EntryKey(Head(sourceReferences).id)])>>
        ELSE <<>>) \o MapReferences(Tail(sourceReferences), cloneMapping)

\* updateTargetReferenceField(targetEntry, fieldName)
updateTargetReferenceField(work, fieldName, sourceEntryId, targetEntryId) ==
  LET relationship == getRelationship(work.meta, work.files, sourceEntryId,
                                      targetEntryId)
  IN IF \/ IsNull(relationship)
        \/ sourceEntryId \notin DOMAIN work.cms
     THEN work
     ELSE IF fieldName \notin DOMAIN work.cms[sourceEntryId].fields
     THEN work
     ELSE [work EXCEPT !.targetEntry.fields =
             Put(@, fieldName,
                 LinksValue(MapReferences(
                   extractReferencedEntries(
                     work.cms[sourceEntryId].fields[fieldName]),
                   relationship[1].cloneMapping)))]

RECURSIVE TranslateChildren_Mut(_, _, _, _, _)
TranslateChildren_Mut(work, deepChanges, translationContext, sourceEntryId, targetEntryId) ==
  IF deepChanges = <<>>
  THEN work
  ELSE TranslateChildren_Mut(
         translateChildEntry(work, Head(deepChanges), translationContext,
                             sourceEntryId, targetEntryId),
         Tail(deepChanges), translationContext, sourceEntryId, targetEntryId)

RECURSIVE TranslateChildren(_, _, _, _, _)
\* the loop of handleReferenceFieldChange over the deep changes
TranslateChildren(work, deepChanges, translationContext, sourceEntryId, targetEntryId) ==
  IF deepChanges = <<>>
  THEN work
  ELSE TranslateChildren(
         IF Head(deepChanges).type = "removed"
         THEN work
         ELSE translateChildEntry(work, Head(deepChanges), translationContext,
                                  sourceEntryId, targetEntryId),
         Tail(deepChanges), translationContext, sourceEntryId, targetEntryId)

handleReferenceFieldChange(work, change, translationContext, sourceEntryId, targetEntryId) ==
  IF change.deepChanges = <<>>
  THEN work
  ELSE updateTargetReferenceField(
         TranslateChildren(work, change.deepChanges, translationContext,
                           sourceEntryId, targetEntryId),
         change.fieldName, sourceEntryId, targetEntryId)

translateAndUpdateField(work, change, translationContext, sourceEntryId, targetEntryId) ==
  IF change.type = "enhanced-reference-field"
  THEN handleReferenceFieldChange(work, change, translationContext,
                                  sourceEntryId, targetEntryId)
  ELSE [work EXCEPT !.targetEntry =
          handleBasicFieldChange(@, change.fieldName, change.newValue,
                                 translationContext)]

RECURSIVE ApplyChanges(_, _, _, _, _)
\* the loop of performIncrementalUpdate over the changes
ApplyChanges(work, changes, translationContext, sourceEntryId, targetEntryId) ==
  IF changes = <<>>
  THEN work
  ELSE ApplyChanges(
         translateAndUpdateField(work, Head(changes), translationContext,
                                 sourceEntryId, targetEntryId),
         Tail(changes), translationContext, sourceEntryId, targetEntryId)

(***************************************************************************)
(* The state.                                                              *)
(*   cms      the entries of the environment, by id                        *)
(*   meta     the translationMetadata entries (the primary store)          *)
(*   files    the tracking directory (the fallback store)                  *)
(*   nextId   the number in the id of the next created entry               *)
(*   cloneRun the clone service as the last cloneEntry left it             *)
(*   req      the request in flight, with the locals of its handler        *)
(*   result   the response of the last finished request                    *)
(*   nEdits, nReq  how many editor actions and requests have begun         *)
(*   track    a record of the history, read by the properties only:        *)
(*     hist        the fields of the root at each of its versions          *)
(*     translated  the root version whose content the last finished clone  *)
(*                 or update read and translated                           *)
(*     dirty       the <<entry, field>> pairs edited since the relation-   *)
(*                 ship exists and not yet covered by a finished update    *)
(*     checked     dirty as the last status check saw it, if no edit came  *)
(*                 after that check                                        *)
(*     atStart     checked as it was when the update in flight began       *)
(*     quiet       no edit since the last update began                     *)
(*     streak      successful updates in a row without an edit since the   *)
(*                 first of them began                                     *)
(*     fresh       the first clone finished with its tree stored and no    *)
(*                 edit or update came after the clone began               *)
(***************************************************************************)
VARIABLES cms, meta, files, nextId, cloneRun, req, result, nEdits, nReq, track

vars == <<cms, meta, files, nextId, cloneRun, req, result, nEdits, nReq, track>>

ROOT == "X"

TARGET_LANGUAGE == "it"

SOURCE_LANGUAGE == "de"

Entry(ctype, fields) ==
  [ctype |-> ctype, version |-> 1, published |-> 0, fields |-> fields]

Idle ==
  [kind |-> "idle", pc |-> "", relationship |-> Null, sourceEntry |-> Null,
   targetEntry |-> Null, changes |-> <<>>, writes |-> <<>>, clone |-> Null]

NoResult ==
  [kind |-> "none", success |-> FALSE, upToDate |-> FALSE,
   hasRelationship |-> FALSE, hasChanges |-> FALSE, changes |-> <<>>,
   fieldsUpdated |-> <<>>, writes |-> <<>>]

NoTrack ==
  [hist |-> NoFunction, translated |-> 0,
   dirty |-> {}, checked |-> {}, atStart |-> {}, quiet |-> FALSE,
   streak |-> 0, fresh |-> FALSE]

\* the clone service between requests: it holds no entries
ServiceOf(run) == [run EXCEPT !.cms = NoFunction]

\* the target entry id the client sends: the clone of the root, once cloned
TargetId ==
  IF EntryKey(ROOT) \in DOMAIN cloneRun.cloneMap
  THEN cloneRun.cloneMap[EntryKey(ROOT)]
  ELSE "none"

\* the key -> id pairs of the stored clone mapping of the relationship
StoredPairs(m) ==
  LET relationship == getRelationshipMetadata(m, ROOT, TargetId)
  IN IF IsNull(relationship)
     THEN {}
     ELSE {<<k, relationship[1].cloneMapping[k]>> :
             k \in DOMAIN relationship[1].cloneMapping}

\* the source content the editors start from
InitialEntries ==
  [id \in {"X", "E1", "E2", "F"} |->
     CASE id = "X" ->
            Entry("cmsPage",
                  [f \in {"title", "teaserText", "culture", "elements"} |->
                     CASE f = "title" -> TextValue("Hallo")
                       [] f = "teaserText" -> TextValue("Welt")
                       [] f = "culture" -> TextValue("de-DE")
                       [] f = "elements" -> LinksValue(<<EntryLink("E1")>>)])
       [] id = "E1" ->
            Entry("scTeaser",
                  [f \in {"title", "text", "elements"} |->
                     CASE f = "title" -> TextValue("Eins")
                       [] f = "text" -> TextValue("Hallo")
                       [] f = "elements" -> LinksValue(<<EntryLink("F")>>)])
       [] id = "E2" ->
            Entry("scTeaser",
                  [f \in {"title", "text"} |->
                     CASE f = "title" -> TextValue("Zwei")
                       [] f = "text" -> TextValue("Welt")])
       [] id = "F" ->
            Entry("scTeaser",
                  [f \in {"title", "text"} |->
                     CASE f = "title" -> TextValue("Fuss")
                       [] f = "text" -> TextValue("Ende")])]

Init ==
  /\ cms = InitialEntries
  /\ meta = <<>>
  /\ files = NoFunction
  /\ nextId = 1
  /\ cloneRun = ServiceOf(NewCloneRun(InitialEntries, 1, TARGET_LANGUAGE))
  /\ req = Idle
  /\ result = NoResult
  /\ nEdits = 0
  /\ nReq = 0
  /\ track = [NoTrack EXCEPT !.hist = Put(NoFunction, 1, InitialEntries[ROOT].fields)]

(***************************************************************************)
(* The editors: they change source entries between the steps of requests.  *)
(***************************************************************************)
TextEdits ==
  {<<"X", "title", "Neu">>, <<"X", "teaserText", " ">>,
   <<"E1", "text", "Neu">>, <<"E1", "title", "Hallo">>,
   <<"F", "text", "Neu">>}

LinkEdits ==
  {<<EntryLink("E1"), EntryLink("E2")>>, <<EntryLink("E2")>>,
   <<EntryLink("E2"), EntryLink("E1")>>, <<>>, <<EntryLink("E1")>>,
   <<EntryLink("E1"), AssetLink("IMG")>>}

\* what an edit of entry id, giving it the fields fields, does to the record
\* of the history
Edited(id, fieldName, entry) ==
  [track EXCEPT
     !.hist = IF id = ROOT THEN Put(@, entry.version, entry.fields) ELSE @,
     !.dirty = IF meta # <<>> /\ req.kind # "clone"
               THEN @ \cup {<<id, fieldName>>}
               ELSE @,
     !.checked = {},
     !.quiet = FALSE,
     !.streak = 0,
     !.fresh = FALSE]

\* an editor saves a new text in a field of a source entry
EditText ==
  \E e \in TextEdits :
    LET id == e[1]
        entry == [cms[id] EXCEPT !.fields[e[2]] = TextValue(e[3]),
                                 !.version = @ + 1]
    IN /\ nEdits < MaxEdits
       /\ cms[id].fields[e[2]] # TextValue(e[3])
       /\ cms' = [cms EXCEPT ![id] = entry]
       /\ nEdits' = nEdits + 1
       /\ track' = Edited(id, e[2], entry)
       /\ UNCHANGED <<meta, files, nextId, cloneRun, req, result, nReq>>

\* an editor saves a new list of references in the root entry
EditLinks ==
  \E links \in LinkEdits :
    LET entry == [cms[ROOT] EXCEPT !.fields["elements"] = LinksValue(links),
                                   !.version = @ + 1]
    IN /\ nEdits < MaxEdits
       /\ cms[ROOT].fields["elements"] # LinksValue(links)
       /\ cms' = [cms EXCEPT ![ROOT] = entry]
       /\ nEdits' = nEdits + 1
       /\ track' = Edited(ROOT, "elements", entry)
       /\ UNCHANGED <<meta, files, nextId, cloneRun, req, result, nReq>>

\* an editor publishes the root entry: the published version is the current
\* one, and the entry gets the next version
Publish ==
  LET entry == [cms[ROOT] EXCEPT !.published = cms[ROOT].version,
                                 !.version = @ + 1]
  IN /\ nEdits < MaxEdits
     /\ cms' = [cms EXCEPT ![ROOT] = entry]
     /\ nEdits' = nEdits + 1
     /\ track' = [track EXCEPT !.hist = Put(@, entry.version, entry.fields)]
     /\ UNCHANGED <<meta, files, nextId, cloneRun, req, result, nReq>>

\* the clone of the source child E1, as the clone service mapped it
TargetChildId ==
  IF EntryKey("E1") \in DOMAIN cloneRun.cloneMap
  THEN cloneRun.cloneMap[EntryKey("E1")]
  ELSE "none"

\* an editor corrects the translated title of the clone of E1 by hand
EditTarget ==
  /\ nEdits < MaxEdits
  /\ meta # <<>>
  /\ TargetChildId \in DOMAIN cms
  /\ cms[TargetChildId].fields["title"] # TextValue("Manuell")
  /\ cms' = [cms EXCEPT ![TargetChildId] =
               [@ EXCEPT !.fields["title"] = TextValue("Manuell"),
                         !.version = @ + 1]]
  /\ nEdits' = nEdits + 1
  /\ track' = [track EXCEPT !.checked = {}, !.quiet = FALSE, !.streak = 0,
                            !.fresh = FALSE]
  /\ UNCHANGED <<meta, files, nextId, cloneRun, req, result, nReq>>

(***************************************************************************)
(* POST /api/clone: cloneEntry, then createTranslationMetadata.            *)
(***************************************************************************)
\* cloneService.cloneEntry for the root (the first clone of the root)
CloneBegin ==
  LET c == cloneEntry(cms, nextId, ROOT, TARGET_LANGUAGE)
  IN /\ req.kind = "idle"
     /\ nReq < MaxRequests
     /\ meta = <<>>
     /\ cloneRun.cloneMap = NoFunction
     /\ c.ok
     /\ cms' = c.run.cms
     /\ nextId' = c.run.nextId
     /\ cloneRun' = ServiceOf(c.run)
     /\ req' = [Idle EXCEPT
                  !.kind = "clone",
                  !.pc = "metadata",
                  !.clone = Some([originalEntryId |-> ROOT,
                                  clonedEntryId |-> c.clonedEntryId,
                                  cloneMapping |-> c.run.cloneMap,
                                  sourceVersion |-> cms[ROOT].version])]
     /\ nReq' = nReq + 1
     /\ UNCHANGED <<meta, files, result, nEdits, track>>

\* createTranslationMetadata with initializeDeepReferenceTracking; treeOk is
\* whether the first tree build succeeded (its errors are swallowed)
CloneMetadata ==
  \E treeOk \in BOOLEAN :
    LET clone == req.clone[1]
        sourceEntry == cms[clone.originalEntryId]
        relationshipData ==
          [sourceEntryId |-> clone.originalEntryId,
           targetEntryId |-> clone.clonedEntryId,
           metadata |-> [lastTranslatedVersion |-> sourceEntry.version,
                         lastUpdated |-> nReq, createdAt |-> nReq],
           translationContext |-> [sourceLanguage |-> SOURCE_LANGUAGE,
                                   targetLanguage |-> TARGET_LANGUAGE],
           fieldHashes |-> ServiceGenerateFieldHashes(sourceEntry),
           cloneMapping |-> clone.cloneMapping]
        stored == storeRelationshipMetadata(meta, clone.originalEntryId,
                                            clone.clonedEntryId,
                                            relationshipData)
        deepMap == buildCurrentReferenceMapForComparison(
                     cms, clone.originalEntryId, clone.clonedEntryId)
    IN /\ req.kind = "clone"
       /\ req.pc = "metadata"
       /\ meta' = IF treeOk
                  THEN storeDeepReferenceMap(stored, clone.originalEntryId,
                                             clone.clonedEntryId, deepMap, nReq)
                  ELSE stored
       /\ files' = Put(files, RelationshipFile(clone.originalEntryId,
                                               clone.clonedEntryId),
                       relationshipData)
       /\ req' = Idle
       /\ result' = [NoResult EXCEPT !.kind = "clone", !.success = TRUE]
       /\ track' = [track EXCEPT
                      !.translated = clone.sourceVersion,
                      !.dirty = {},
                      !.checked = {},
                      !.fresh = treeOk /\ cms[ROOT].version = clone.sourceVersion]
       /\ UNCHANGED <<cms, nextId, cloneRun, nEdits, nReq>>

(***************************************************************************)
(* GET /api/incremental/status: checkUpdateStatus.                         *)
(***************************************************************************)
\* the response of checkUpdateStatus for the detected changes d
StatusResponse(d) ==
  [NoResult EXCEPT
     !.kind = "status",
     !.success = TRUE,
     !.hasRelationship = TRUE,
     !.hasChanges = d.changes # <<>>,
     !.upToDate = d.changes = <<>>,
     !.changes = d.changes,
     !.writes = IF d.stored THEN <<Write("deepReferenceMap", ROOT)>> ELSE <<>>]

\* checkUpdateStatus, with the relationship it reads and the changes d it
\* detects when there is one
CheckUpdateStatus(relationship, d) ==
  /\ nReq' = nReq + 1
  /\ IF IsNull(relationship)
     THEN /\ result' = [NoResult EXCEPT !.kind = "status", !.success = TRUE]
          /\ UNCHANGED meta
     ELSE /\ result' = StatusResponse(d)
          /\ meta' = d.meta
  /\ track' = [track EXCEPT !.checked = track.dirty]
  /\ UNCHANGED <<cms, files, nextId, cloneRun, req, nEdits>>

StatusCheck ==
  /\ nReq < MaxRequests
  /\ CheckUpdateStatus(
       getRelationship(meta, files, ROOT, TargetId),
       detectParentFieldChanges(cms, meta, files, cms[ROOT], ROOT, TargetId,
                                nReq))

(***************************************************************************)
(* POST /api/incremental/update: performIncrementalUpdate, one action for  *)
(* each stretch between the points where other requests and the editors    *)
(* can run.                                                                *)
(***************************************************************************)
BackupFile(entryId, now) ==
  "backups/" \o entryId \o "_" \o ToString(now) \o ".json"

\* getRelationship, the two getEntry calls and createBackupSnapshot; fetchOk
\* is whether the two getEntry calls succeeded (a failure is caught at the end
\* of performIncrementalUpdate)
UpdateBegin ==
  \E fetchOk \in BOOLEAN :
  LET relationship == getRelationship(meta, files, ROOT, TargetId)
  IN /\ req.kind = "idle"
     /\ nReq < MaxRequests
     /\ nReq' = nReq + 1
     /\ IF IsNull(relationship) \/ TargetId \notin DOMAIN cms \/ ~fetchOk
        THEN /\ result' = [NoResult EXCEPT !.kind = "update"]
             /\ track' = [track EXCEPT !.streak = 0]
             /\ UNCHANGED <<files, req>>
        ELSE /\ req' = [Idle EXCEPT
                          !.kind = "update",
                          !.pc = "detect",
                          !.relationship = relationship,
                          !.sourceEntry = Some(cms[ROOT]),
                          !.targetEntry = Some(cms[TargetId]),
                          !.writes = <<Write("backup", TargetId)>>]
             /\ files' = Put(files, BackupFile(TargetId, nReq),
                             [backupId |-> TargetId \o "_" \o ToString(nReq),
                              entryId |-> TargetId,
                              entrySnapshot |-> cms[TargetId]])
             /\ track' = [track EXCEPT !.atStart = track.checked,
                                       !.quiet = TRUE,
                                       !.fresh = FALSE]
             /\ UNCHANGED result
     /\ UNCHANGED <<cms, meta, nextId, cloneRun, nEdits>>

\* detectParentFieldChanges, and the return when there are no changes
Detected(d) ==
  LET writes == req.writes \o (IF d.stored
                               THEN <<Write("deepReferenceMap", ROOT)>>
                               ELSE <<>>)
  IN /\ meta' = d.meta
     /\ IF d.changes = <<>>
        THEN /\ req' = Idle
             /\ result' = [NoResult EXCEPT !.kind = "update",
                                           !.success = TRUE,
                                           !.upToDate = TRUE,
                                           !.writes = writes]
             /\ track' = [track EXCEPT
                            !.streak = IF track.quiet THEN @ + 1 ELSE 0]
        ELSE /\ req' = [req EXCEPT !.pc = "apply", !.changes = d.changes,
                                   !.writes = writes]
             /\ UNCHANGED <<result, track>>
     /\ UNCHANGED <<cms, files, nextId, cloneRun, nEdits, nReq>>

UpdateDetect ==
  /\ req.kind = "update"
  /\ req.pc = "detect"
  /\ Detected(detectParentFieldChanges(cms, meta, files, req.sourceEntry[1],
                                       ROOT, TargetId, nReq))

\* the loop over the changes, and targetEntry.update(); updateOk is whether
\* that update succeeded (its failure is caught at the end of
\* performIncrementalUpdate, after the loop has made its writes)
Applied(work, updateOk) ==
  /\ meta' = work.meta
  /\ files' = work.files
  /\ nextId' = work.nextId
  /\ IF updateOk
     THEN /\ cms' = UpdateEntry(work.cms, TargetId, work.targetEntry)
          /\ req' = [req EXCEPT !.pc = "store",
                                !.targetEntry = Some(cms'[TargetId]),
                                !.writes = Append(work.writes,
                                                  Write("update", TargetId))]
          /\ UNCHANGED <<result, track>>
     ELSE /\ cms' = work.cms
          /\ req' = Idle
          /\ result' = [NoResult EXCEPT !.kind = "update",
                                        !.writes = work.writes]
          /\ track' = [track EXCEPT !.streak = 0]
  /\ UNCHANGED <<cloneRun, nEdits, nReq>>

UpdateApply ==
  /\ req.kind = "update"
  /\ req.pc = "apply"
  /\ \E updateOk \in BOOLEAN :
       Applied(ApplyChanges([cms |-> cms, meta |-> meta, files |-> files,
                             nextId |-> nextId,
                             targetEntry |-> req.targetEntry[1],
                             writes |-> req.writes],
                            req.changes, req.relationship[1].translationContext,
                            ROOT, TargetId),
               updateOk)

\* createOrUpdateRelationship with the version and the hashes of the source
\* entry read at the start, and the clone mapping read at the start
UpdateStoreRelationship ==
  LET sourceEntry == req.sourceEntry[1]
      relationship == req.relationship[1]
  IN /\ req.kind = "update"
     /\ req.pc = "store"
     /\ meta' = createOrUpdateRelationship(
                  meta, ROOT, TargetId, EffectiveVersion(sourceEntry),
                  relationship.translationContext,
                  ServiceGenerateFieldHashes(sourceEntry),
                  relationship.cloneMapping, nReq)
     /\ req' = [req EXCEPT !.pc = "refresh",
                           !.writes = Append(@, Write("relationship", ROOT))]
     /\ UNCHANGED <<cms, files, nextId, cloneRun, result, nEdits, nReq, track>>

\* updateReferenceVersions: the tree of the current source is built and
\* stored; treeOk is whether buildDeepReferenceMap succeeded (its error is
\* caught in updateReferenceVersions and the update goes on)
UpdateRefreshTree ==
  \E treeOk \in BOOLEAN :
  /\ req.kind = "update"
  /\ req.pc = "refresh"
  /\ meta' = IF treeOk
             THEN storeDeepReferenceMap(
                    meta, ROOT, TargetId,
                    buildCurrentReferenceMapForComparison(cms, ROOT, TargetId),
                    nReq)
             ELSE meta
  /\ req' = Idle
  /\ result' = [NoResult EXCEPT
                  !.kind = "update",
                  !.success = TRUE,
                  !.fieldsUpdated = [i \in DOMAIN req.changes |->
                                       req.changes[i].fieldName],
                  !.writes = IF treeOk
                             THEN Append(req.writes,
                                         Write("deepReferenceMap", ROOT))
                             ELSE req.writes]
  /\ track' = [track EXCEPT
                 !.translated = req.sourceEntry[1].version,
                 !.dirty = IF track.quiet THEN {} ELSE @,
                 !.checked = IF track.quiet THEN {} ELSE @,
                 !.streak = IF track.quiet THEN @ + 1 ELSE 0]
  /\ UNCHANGED <<cms, files, nextId, cloneRun, nEdits, nReq>>

(***************************************************************************)
(* The deep reference routes.                                              *)
(***************************************************************************)
\* POST /api/incremental/deep-references/:sourceEntryId/:targetEntryId/rebuild
\* with the new service of the request
Rebuilt(r) ==
  /\ meta' = r.meta
  /\ result' = [NoResult EXCEPT !.kind = "rebuild", !.success = r.success]
  /\ nReq' = nReq + 1
  /\ UNCHANGED <<cms, files, nextId, cloneRun, req, nEdits, track>>

Rebuild ==
  /\ nReq < MaxRequests
  /\ Rebuilt(rebuildDeepReferenceMap(NewServiceDeepReferenceTracker, cms, meta,
                                     ROOT, TargetId, nReq))

\* GET /api/incremental/deep-references/:sourceEntryId/:targetEntryId
Statistics ==
  /\ nReq < MaxRequests
  /\ result' = [NoResult EXCEPT
                  !.kind = "statistics",
                  !.success = TRUE,
                  !.hasChanges =
                    getDeepReferenceStatistics(NewServiceDeepReferenceTracker,
                                               meta, files, ROOT, TargetId) > 0]
  /\ nReq' = nReq + 1
  /\ UNCHANGED <<cms, meta, files, nextId, cloneRun, req, nEdits, track>>

Next ==
  \/ EditText
  \/ EditLinks
  \/ EditTarget
  \/ Publish
  \/ CloneBegin
  \/ CloneMetadata
  \/ StatusCheck
  \/ UpdateBegin
  \/ UpdateDetect
  \/ UpdateApply
  \/ UpdateStoreRelationship
  \/ UpdateRefreshTree
  \/ Rebuild
  \/ Statistics

Spec == Init /\ [][Next]_vars

(***************************************************************************)
(* Properties of the incremental update.                                   *)
(***************************************************************************)
StoredRelationship == getRelationshipMetadata(meta, ROOT, TargetId)

CurrentTreeIds ==
  FlatIds(buildCurrentReferenceMapForComparison(cms, ROOT, TargetId).flattenedRefs)

\* the pairs of a set of edited <<entry, field>> pairs that are about a
\* translatable field of a mapped child reachable from the root
ChildPairs(pairs) ==
  {p \in pairs :
     /\ p[1] # ROOT
     /\ p[1] \in CurrentTreeIds
     /\ ~IsNull(StoredRelationship)
     /\ EntryKey(p[1]) \in DOMAIN StoredRelationship[1].cloneMapping
     /\ StoredRelationship[1].cloneMapping[EntryKey(p[1])] \in DOMAIN cms
     /\ ServiceIsTranslatableField(p[2], cms[p[1]].fields[p[2]])}

\* the mapped target child holds the re-translated value of the source field
InSync(p) ==
  cms[StoredRelationship[1].cloneMapping[EntryKey(p[1])]].fields[p[2]] =
    TextValue(IncrementalTranslateText(cms[p[1]].fields[p[2]].text,
                StoredRelationship[1].translationContext))

\* a change of the response names the reference id among its deep changes
ReportsReference(changes, id) ==
  \E i \in DOMAIN changes :
    \E j \in DOMAIN changes[i].deepChanges : changes[i].deepChanges[j].id = id

UpdateFinished ==
  req.kind = "idle" /\ result.kind = "update" /\ result.success

\* C1: after the first clone, a changed translatable field of a reachable
\* child is reported by the status check (hasChanges with a change for that
\* reference), and an update that follows the status check with no source
\* change in between writes the re-translated value to the mapped target
\* child: the status check does not consume the pending change.
C1_StatusCheckKeepsPendingChange ==
  /\ result.kind = "status" =>
       \A p \in ChildPairs(track.checked) :
          ~InSync(p) => result.hasChanges /\ ReportsReference(result.changes, p[1])
  /\ UpdateFinished /\ track.quiet =>
       \A p \in ChildPairs(track.atStart) : InSync(p)

\* C2: a detection run (the status check, and the detection step of an
\* update) leaves the stored relationship and the stored tree as they are,
\* also when no tree is stored yet.
C2_DetectionWritesNothing ==
  [][(StatusCheck \/ UpdateDetect) => meta' = meta /\ files' = files]_vars

\* the ids of the entries an update created
Created(writes) ==
  {writes[i].id : i \in {j \in DOMAIN writes : writes[j].op = "create"}}

\* the key -> id pairs of a clone mapping
PairsOf(cloneMapping) ==
  {<<k, cloneMapping[k]>> : k \in DOMAIN cloneMapping}

\* C6: the persisted clone mapping only grows (no request removes or remaps a
\* key), and an update that cloned new references ends with the mapping it
\* started from plus exactly one entry for each newly cloned reference.
C6_CloneMappingOnlyGrows ==
  [][/\ StoredPairs(meta) \subseteq StoredPairs(meta')
     /\ UpdateRefreshTree =>
          /\ Created(result'.writes) =
               {p[2] : p \in StoredPairs(meta')
                               \ PairsOf(req.relationship[1].cloneMapping)}
          /\ Cardinality(StoredPairs(meta')
                           \ PairsOf(req.relationship[1].cloneMapping))
               = Cardinality(Created(result'.writes))]_vars

\* the entry links of the root source field, mapped through the stored clone
\* mapping, in source order
MappedLinks(fieldName) ==
  LET refs == extractReferencedEntries(cms[ROOT].fields[fieldName])
  IN [i \in DOMAIN refs |->
        EntryLink(StoredRelationship[1].cloneMapping[EntryKey(refs[i].id)])]

\* C7: after every update with success = true (and no source edit since it
\* began) each link field of the root target is the current link list of the
\* source mapped through the stored clone mapping, in source order.
C7_TargetLinksAreMappedSourceLinks ==
  UpdateFinished /\ track.quiet =>
    \A f \in {g \in DOMAIN cms[ROOT].fields : IsLinks(cms[ROOT].fields[g])} :
       /\ \A i \in DOMAIN cms[ROOT].fields[f].links :
            EntryKey(cms[ROOT].fields[f].links[i].id)
              \in DOMAIN StoredRelationship[1].cloneMapping
       /\ cms[TargetId].fields[f] = LinksValue(MappedLinks(f))

\* C8: a second update in a row with no source change in between answers
\* upToDate = true and writes nothing to the CMS but the tree snapshot.
C8_SecondUpdateIsUpToDate ==
  UpdateFinished /\ track.quiet /\ track.streak >= 2 =>
    /\ result.upToDate
    /\ \A i \in DOMAIN result.writes :
         result.writes[i].op \in {"backup", "deepReferenceMap"}

\* C9: a detection right after the first clone finds no field change: the
\* hashes stored at clone time and those computed at detection time cover the
\* same fields and are equal.
C9_NoChangeRightAfterClone ==
  result.kind = "status" /\ track.fresh =>
    /\ \A i \in DOMAIN result.changes : result.changes[i].type # "field"
    /\ StoredRelationship[1].fieldHashes = DetectionGenerateFieldHashes(cms[ROOT])

\* C10: between requests the stored field hashes are the hashes of the
\* translatable fields of the source at the stored lastTranslatedVersion, and
\* that version is the one the last clone or update translated.
C10_HashesMatchTranslatedVersion ==
  /\ req.kind = "idle"
  /\ result.kind \in {"clone", "update"}
  /\ result.success
  /\ ~result.upToDate
  => LET R == StoredRelationship[1]
         v == R.metadata.lastTranslatedVersion
     IN /\ v \in DOMAIN track.hist
        /\ R.fieldHashes = ServiceGenerateFieldHashes([fields |-> track.hist[v]])
        /\ v = track.translated

\* the tree snapshot a detection would read for the pair of the root
StoredTree(m, f) == getStoredDeepReferenceMap(m, f, ROOT, TargetId)

\* the tree built from the source entries c
TreeOf(c) == buildCurrentReferenceMapForComparison(c, ROOT, TargetId)

\* C11: when an update that applied changes returns success = true, the stored
\* tree snapshot is the tree built from the source at that moment.
C11_StoredTreeIsCurrentAfterUpdate ==
  [][UpdateRefreshTree => StoredTree(meta', files') = Some(TreeOf(cms'))]_vars

\* C12: after a status check that finds no changes, the stored tree snapshot
\* is the tree built from the current source.
C12_CleanStatusCheckRefreshesTree ==
  [][StatusCheck /\ result'.hasRelationship /\ result'.upToDate
       => StoredTree(meta', files') = Some(TreeOf(cms'))]_vars

\* C13: in the writes of a successful update with changes, every persist of
\* the tree snapshot comes after the persist of the relationship, which comes
\* after the update of the root target entry.
C13_WritesInOrder ==
  UpdateFinished /\ ~result.upToDate =>
    LET writes == result.writes
    IN /\ \A i \in DOMAIN writes :
            writes[i].op = "deepReferenceMap" =>
              \E j \in 1..(i - 1) : writes[j] = Write("relationship", ROOT)
       /\ \A j \in DOMAIN writes :
            writes[j] = Write("relationship", ROOT) =>
              \E k \in 1..(j - 1) : writes[k] = Write("update", TargetId)

\* the step of an update that ends it with success = false
UpdateFails ==
  /\ UpdateBegin \/ UpdateApply
  /\ req'.kind = "idle"
  /\ result'.kind = "update"
  /\ ~result'.success

\* C14: the step in which an update fails reports fieldsUpdated = [] and
\* leaves the stored relationship (its clone mapping included) and the stored
\* tree snapshot as they were, and the backup of the run is still there.
C14_FailedUpdateLeavesStoresAlone ==
  [][UpdateFails =>
       /\ result'.fieldsUpdated = <<>>
       /\ getRelationship(meta', files', ROOT, TargetId)
            = getRelationship(meta, files, ROOT, TargetId)
       /\ StoredTree(meta', files') = StoredTree(meta, files)
       /\ \A name \in DOMAIN files : name \in DOMAIN files'
       /\ UpdateApply =>
            \E name \in DOMAIN files' :
              StartsWith(name, "backups/" \o TargetId)]_vars

\* the source children and their clones, by the clone mapping the update reads
MappedChildren ==
  LET relationship == getRelationship(meta, files, ROOT, TargetId)
  IN IF IsNull(relationship)
     THEN {}
     ELSE {<<s, relationship[1].cloneMapping[EntryKey(s)]>> :
             s \in {c \in DOMAIN InitialEntries \ {ROOT} :
                      /\ EntryKey(c) \in DOMAIN relationship[1].cloneMapping
                      /\ relationship[1].cloneMapping[EntryKey(c)]
                           \in DOMAIN cms}}

\* C15: the apply step of an update leaves every field of a target child
\* alone whose source field has the value it had at the last translation (a
\* field the editors never changed still has its initial value).
C15_UnchangedChildFieldsKept ==
  [][UpdateApply =>
       \A p \in MappedChildren :
         \A f \in DOMAIN cms[p[2]].fields :
           /\ f \in DOMAIN cms[p[1]].fields
           /\ cms[p[1]].fields[f] = InitialEntries[p[1]].fields[f]
           => cms'[p[2]].fields[f] = cms[p[2]].fields[f]]_vars

\* the stored relationship without its tree snapshot
OtherFields(m) ==
  LET relationship == getRelationshipMetadata(m, ROOT, TargetId)
  IN IF IsNull(relationship)
     THEN Null
     ELSE Some([relationship[1] EXCEPT !.deepReferenceMap = Null])

\* C18: storing the tree snapshot changes nothing else of the relationship,
\* and storing the relationship in an update keeps the tree snapshot that was
\* stored.
C18_StoresKeepEachOthersFields ==
  [][/\ UpdateRefreshTree => OtherFields(meta') = OtherFields(meta)
     /\ UpdateStoreRelationship =>
          (~IsNull(StoredTree(meta, files))
             => ~IsNull(StoredTree(meta', files')))]_vars

C24_TitleKeepsPrefix ==
  TargetId \in DOMAIN cms =>
    LET title == cms[TargetId].fields["title"].text
        prefix == CLONE_PREFIX \o " "
    IN /\ StartsWith(title, prefix)
       /\ ~Includes(SubSeq(title, Len(prefix) + 1, Len(title)), CLONE_PREFIX)

\* the ids of the references the changes of the update in flight report as
\* removed from the source
RemovedInChanges ==
  UNION {{req.changes[i].deepChanges[j].id :
            j \in {k \in DOMAIN req.changes[i].deepChanges :
                     req.changes[i].deepChanges[k].type = "removed"}} :
         i \in DOMAIN req.changes}

\* the clone mapping the steps of an update read, of the stores m and f
MappingOf(m, f) ==
  LET relationship == getRelationship(m, f, ROOT, TargetId)
  IN IF IsNull(relationship) THEN NoFunction ELSE relationship[1].cloneMapping

\* C29: the apply step of an update does nothing for a reference that was
\* removed from the source: the clone the mapping names for it is neither
\* deleted nor updated, no entry is created and mapped for it, and when the
\* source no longer links it the link list the step writes to the target
\* does not link its clone.
C29_RemovedReferenceLeftAlone ==
  [][UpdateApply =>
       \A r \in RemovedInChanges :
         /\ EntryKey(r) \in DOMAIN MappingOf(meta, files)
            /\ MappingOf(meta, files)[EntryKey(r)] \in DOMAIN cms
            => /\ MappingOf(meta, files)[EntryKey(r)] \in DOMAIN cms'
               /\ cms'[MappingOf(meta, files)[EntryKey(r)]] =
                    cms[MappingOf(meta, files)[EntryKey(r)]]
         /\ EntryKey(r) \in DOMAIN MappingOf(meta', files')
            => EntryKey(r) \in DOMAIN MappingOf(meta, files)
         /\ EntryKey(r) \in DOMAIN MappingOf(meta, files)
            /\ ~fieldContainsReference(cms[ROOT].fields["elements"], r)
            /\ req'.pc = "store"
            => ~fieldContainsReference(
                  cms'[TargetId].fields["elements"],
                  MappingOf(meta, files)[EntryKey(r)])]_vars

\* the apply step ran for the root whose reference E1 was removed: the
\* target no longer links the clone of E1, and the clone is there as the
\* first clone made it
C29_Witness ==
  /\ req.kind = "update"
  /\ req.pc = "store"
  /\ "E1" \in RemovedInChanges
  /\ TargetChildId \in DOMAIN cms
  /\ cms[TargetChildId].version = 1
  /\ ~fieldContainsReference(cms[TargetId].fields["elements"], TargetChildId)

\* the ids of a list of reported references
ReportedIds(refs) == {refs[i].id : i \in DOMAIN refs}

\* the lists d of detectDeepReferenceChanges name each id of the stored and
\* the current flattened references in the list it belongs to, and once
Classified(stored, current, d) ==
  /\ ReportedIds(d.newReferences) = FlatIds(current) \ FlatIds(stored)
  /\ {d.removedReferences[i] : i \in DOMAIN d.removedReferences} =
       FlatIds(stored) \ FlatIds(current)
  /\ ReportedIds(d.changedReferences) =
       {id \in FlatIds(current) \cap FlatIds(stored) :
          \/ FlatGet(current, id).version > FlatGet(stored, id).version
          \/ FlatGet(current, id).contentHash # FlatGet(stored, id).contentHash}
  /\ Len(d.newReferences) = Cardinality(ReportedIds(d.newReferences))
  /\ Len(d.changedReferences) = Cardinality(ReportedIds(d.changedReferences))
  /\ Len(d.removedReferences) =
       Cardinality({d.removedReferences[i] : i \in DOMAIN d.removedReferences})
  /\ ReportedIds(d.newReferences) \cap ReportedIds(d.changedReferences) = {}
  /\ \A i \in DOMAIN d.removedReferences :
       d.removedReferences[i] \notin ReportedIds(d.newReferences)
                                      \cup ReportedIds(d.changedReferences)

\* C30: whenever a tree snapshot is stored, detectDeepReferenceChanges on the
\* stored and the current tree reports an id as new iff it is in the current
\* flattened references only, as removed iff it is in the stored ones only,
\* as changed iff it is in both with a greater version or another content
\* hash; the three lists are disjoint and name each id once.
C30_DiffClassifiesExactly ==
  ~IsNull(StoredTree(meta, files)) =>
    Classified(StoredTree(meta, files)[1].flattenedRefs,
               TreeOf(cms).flattenedRefs,
               detectDeepReferenceChanges(cms, meta, files, ROOT, TargetId,
                                          nReq))

\* the stored tree and the source differ in all three ways at once, and the
\* root changed in version and in content
C30_Witness ==
  /\ ~IsNull(StoredTree(meta, files))
  /\ LET stored == StoredTree(meta, files)[1].flattenedRefs
         current == TreeOf(cms).flattenedRefs
     IN /\ FlatIds(current) \ FlatIds(stored) # {}
        /\ FlatIds(stored) \ FlatIds(current) # {}
        /\ FlatGet(current, ROOT).version > FlatGet(stored, ROOT).version
        /\ FlatGet(current, ROOT).contentHash # FlatGet(stored, ROOT).contentHash

\* the asset links of the field elements of an entry, in order
AssetLinks(entry) ==
  SelectSeq(entry.fields["elements"].links, LAMBDA ref : isAssetReference(ref))

\* C26: the first clone carries every asset link of the root into the target
\* with the same asset id, creates no entry under that id and records
\* Asset:<id> -> <id> in the clone map; and an update step that writes the
\* target keeps the asset links the target and the source both hold.
C26_AssetLinksKept ==
  [][/\ CloneBegin =>
          /\ AssetLinks(cms'[TargetId']) = AssetLinks(cms[ROOT])
          /\ \A i \in DOMAIN AssetLinks(cms[ROOT]) :
               /\ AssetLinks(cms[ROOT])[i].id \notin DOMAIN cms'
               /\ LinkKey(AssetLinks(cms[ROOT])[i]) \in DOMAIN cloneRun'.cloneMap
               /\ cloneRun'.cloneMap[LinkKey(AssetLinks(cms[ROOT])[i])] =
                    AssetLinks(cms[ROOT])[i].id
     /\ UpdateApply /\ req'.pc = "store" =>
          \A i \in DOMAIN AssetLinks(cms[TargetId]) :
            SeqContains(AssetLinks(cms[ROOT]), AssetLinks(cms[TargetId])[i])
            => SeqContains(AssetLinks(cms'[TargetId]),
                           AssetLinks(cms[TargetId])[i])]_vars

(***************************************************************************)
(* The first clone over reference graphs: the editors link the entries     *)
(* A (a page), B, C and D in any way, then A is cloned.                    *)
(***************************************************************************)
GraphIds == {"A", "B", "C", "D"}

GraphEntries ==
  [id \in GraphIds |->
     IF id = "A"
     THEN Entry("cmsPage",
                [f \in {"title", "culture", "elements"} |->
                   CASE f = "title" -> TextValue("Hallo")
                     [] f = "culture" -> TextValue("de-DE")
                     [] f = "elements" -> LinksValue(<<>>)])
     ELSE Entry("scTeaser",
                [f \in {"title", "elements"} |->
                   CASE f = "title" -> TextValue("Teil " \o id)
                     [] f = "elements" -> LinksValue(<<>>)])]

\* the ids the entry a links to, in order
LinksOf(a) ==
  [i \in DOMAIN cms[a].fields["elements"].links |->
     cms[a].fields["elements"].links[i].id]

NumLinks(S) ==
  Cardinality({<<a, i>> \in S \X (1..MaxLinks) : i \in DOMAIN LinksOf(a)})

InitClone ==
  /\ cms = GraphEntries
  /\ meta = <<>>
  /\ files = NoFunction
  /\ nextId = 1
  /\ cloneRun = ServiceOf(NewCloneRun(GraphEntries, 1, TARGET_LANGUAGE))
  /\ req = Idle
  /\ result = NoResult
  /\ nEdits = 0
  /\ nReq = 0
  /\ track = NoTrack

\* an editor appends a link to b to the references of a
GraphAddLink ==
  \E a \in GraphIds, b \in GraphIds :
    /\ result.kind = "none"
    /\ NumLinks(GraphIds) < MaxLinks
    /\ ~SeqContains(LinksOf(a), b)
    /\ cms' = [cms EXCEPT ![a].fields["elements"] =
                            LinksValue(Append(@.links, EntryLink(b))),
                          ![a].version = @ + 1]
    /\ UNCHANGED <<meta, files, nextId, cloneRun, req, result, nEdits, nReq,
                   track>>

\* cloneService.cloneEntry for the page A
GraphClone ==
  LET c == cloneEntry(cms, nextId, "A", TARGET_LANGUAGE)
  IN /\ result.kind = "none"
     /\ c.ok
     /\ cms' = c.run.cms
     /\ nextId' = c.run.nextId
     /\ cloneRun' = ServiceOf(c.run)
     /\ result' = [NoResult EXCEPT !.kind = "clone", !.success = TRUE]
     /\ UNCHANGED <<meta, files, req, nEdits, nReq, track>>

NextClone ==
  \/ GraphAddLink
  \/ GraphClone

SpecClone == InitClone /\ [][NextClone]_vars

(***************************************************************************)
(* Properties of the first clone.                                          *)
(***************************************************************************)
RECURSIVE Reach(_)
\* the source entries reachable from the entries of S along the links
Reach(S) ==
  LET next == S \cup {b \in GraphIds : \E a \in S : SeqContains(LinksOf(a), b)}
  IN IF next = S THEN S ELSE Reach(next)

\* the link positions <<a, i>> of reachable entries that point to s
LinksTo(s) ==
  {p \in Reach({"A"}) \X (1..MaxLinks) :
     p[2] \in DOMAIN LinksOf(p[1]) /\ LinksOf(p[1])[p[2]] = s}

\* the sub-references reachable by several paths
SharedEntries ==
  {s \in GraphIds \ {"A"} : Cardinality(LinksTo(s)) >= 2}

\* the cloneMap.set calls of the run for the source entry e
SetsOf(e) ==
  {i \in DOMAIN cloneRun.sets : cloneRun.sets[i][1] = EntryKey(e)}

\* the target entries created from the source entry e
ClonesOf(e) == {cloneRun.sets[i][2] : i \in SetsOf(e)}

\* C3: a sub-reference shared by several paths of the first clone gets exactly
\* one target entry, its clone map id is set once and never changed, and every
\* link to it that was rewritten carries that id.
C3_SharedReferenceClonedOnce ==
  result.kind = "clone" =>
    \A s \in SharedEntries :
       /\ Cardinality(SetsOf(s)) = 1
       /\ ClonesOf(s) = {cloneRun.cloneMap[EntryKey(s)]}
       /\ \A p \in LinksTo(s) : \A t \in ClonesOf(p[1]) :
            cms[t].fields["elements"].links[p[2]].id
              \in {s, cloneRun.cloneMap[EntryKey(s)]}

\* a diamond was cloned: two target entries link to the one clone of a shared
\* sub-reference
C3_Witness ==
  /\ result.kind = "clone"
  /\ \E s \in SharedEntries :
       \E p \in LinksTo(s), q \in LinksTo(s) :
          /\ p[1] # q[1]
          /\ \E t \in ClonesOf(p[1]), u \in ClonesOf(q[1]) :
               /\ t # u
               /\ cms[t].fields["elements"].links[p[2]].id =
                    cloneRun.cloneMap[EntryKey(s)]
               /\ cms[u].fields["elements"].links[q[2]].id =
                    cloneRun.cloneMap[EntryKey(s)]
               /\ cloneRun.cloneMap[EntryKey(s)] # s

\* the source graph is the cycle A.elements = [B], B.elements = [A]
IsTwoCycle ==
  /\ LinksOf("A") = <<"B">>
  /\ LinksOf("B") = <<"A">>
  /\ LinksOf("C") = <<>>
  /\ LinksOf("D") = <<>>

\* C4: cloning the root A of the cycle A.ref = B, B.ref = A creates exactly
\* one clone A' and one clone B', with A'.ref = B' and B'.ref = A'.
C4_CycleClonedOnceEach ==
  result.kind = "clone" /\ IsTwoCycle =>
    /\ Cardinality(SetsOf("A")) = 1
    /\ Cardinality(SetsOf("B")) = 1
    /\ LET a == cloneRun.cloneMap[EntryKey("A")]
           b == cloneRun.cloneMap[EntryKey("B")]
       IN /\ cms[a].fields["elements"] = LinksValue(<<EntryLink(b)>>)
          /\ cms[b].fields["elements"] = LinksValue(<<EntryLink(a)>>)

\* C5: cloneEntry terminates on every finite graph, cycles and self-links
\* included: the clone body runs at most once for each entry, and never for
\* an entry whose clone is still on the stack.
C5_CloneTerminatesWithoutReentry ==
  result.kind = "clone" =>
    /\ ~cloneRun.diverged
    /\ cloneRun.calls <= Cardinality(GraphIds)
    /\ \A e \in GraphIds :
         Cardinality({i \in DOMAIN cloneRun.entered :
                        cloneRun.entered[i] = e}) <= 1
    /\ ~cloneRun.reentered


(***************************************************************************)
(* The relationship store alone: Store, StoreDeepMap and Get for the pair  *)
(* of the root and a target, one call at a time, with calls of the primary *)
(* store that fail.  Here track is [last |-> the time of the last Store    *)
(* that succeeded, 0 before the first], nReq counts the calls and req      *)
(* holds what the last Get returned.                                       *)
(***************************************************************************)
StoreTargetId == "Xt"

InitStore ==
  /\ cms = InitialEntries
  /\ meta = <<>>
  /\ files = NoFunction
  /\ nextId = 1
  /\ cloneRun = ServiceOf(NewCloneRun(InitialEntries, 1, TARGET_LANGUAGE))
  /\ req = Idle
  /\ result = NoResult
  /\ nEdits = 0
  /\ nReq = 0
  /\ track = [last |-> 0]

\* the stores after a call, and the clock
Stored(stores) ==
  /\ meta' = stores.meta
  /\ files' = stores.files
  /\ nReq' = nReq + 1
  /\ req' = Idle
  /\ UNCHANGED <<cms, nextId, cloneRun, result, nEdits>>

\* Store: createOrUpdateRelationship at time nReq + 1
StoreOp ==
  \E v \in 1..2, queryOk \in BOOLEAN, writeOk \in BOOLEAN :
    /\ nReq < MaxStoreOps
    /\ Stored(createOrUpdateRelationshipIf(
                queryOk, writeOk, meta, files, ROOT, StoreTargetId, v,
                [sourceLanguage |-> SOURCE_LANGUAGE,
                 targetLanguage |-> TARGET_LANGUAGE],
                ServiceGenerateFieldHashes(cms[ROOT]),
                Put(NoFunction, EntryKey(ROOT), StoreTargetId), nReq + 1))
    /\ track' = [last |-> nReq + 1]

\* StoreDeepMap: storeDeepReferenceMap of the tracker for a pair that has
\* been stored
StoreDeepMapOp ==
  \E getOk \in BOOLEAN, queryOk \in BOOLEAN, writeOk \in BOOLEAN :
    /\ nReq < MaxStoreOps
    /\ track.last # 0
    /\ Stored(storeDeepReferenceMapIf(
                getOk, queryOk, writeOk, meta, files, ROOT, StoreTargetId,
                buildCurrentReferenceMapForComparison(cms, ROOT, StoreTargetId),
                nReq + 1))
    /\ UNCHANGED track

\* Get: getRelationship
GetOp ==
  \E queryOk \in BOOLEAN :
    /\ nReq < MaxStoreOps
    /\ req' = [Idle EXCEPT
                 !.kind = "get",
                 !.pc = IF queryOk THEN "primary" ELSE "file",
                 !.relationship = getRelationshipIf(queryOk, meta, files, ROOT,
                                                    StoreTargetId)]
    /\ nReq' = nReq + 1
    /\ UNCHANGED <<cms, meta, files, nextId, cloneRun, result, nEdits, track>>

NextStore ==
  \/ StoreOp
  \/ StoreDeepMapOp
  \/ GetOp

SpecStore == InitStore /\ [][NextStore]_vars

(***************************************************************************)
(* Properties of the relationship store.                                   *)
(***************************************************************************)
\* C16: a Get answered with the primary store reachable returns the
\* relationship of the last Store that succeeded on either backend, and none
\* only when no Store has succeeded.
C16_GetReturnsLastStored ==
  req.kind = "get" /\ req.pc = "primary" =>
    IF track.last = 0
    THEN IsNull(req.relationship)
    ELSE /\ ~IsNull(req.relationship)
         /\ req.relationship[1].metadata.lastUpdated = track.last

\* C17: a Store for a pair whose relationship exists (on either backend)
\* leaves its metadata.createdAt as it was.
C17_StorePreservesCreatedAt ==
  [][StoreOp /\ ~IsNull(getRelationship(meta, files, ROOT, StoreTargetId))
       => getRelationship(meta', files', ROOT, StoreTargetId)[1].metadata.createdAt
            = getRelationship(meta, files, ROOT, StoreTargetId)[1].metadata.createdAt]_vars

\* C19: the primary store never holds two translationMetadata entries of one
\* relationshipId, also when a lookup query before a write has failed.
C19_OneEntryPerRelationshipId ==
  \A i \in DOMAIN meta : \A j \in DOMAIN meta :
    meta[i].relationshipId = meta[j].relationshipId => i = j

(***************************************************************************)
(* POST /api/clone as the server runs it: the request names the source     *)
(* entry and the target languages, cloneEntry runs once for each language  *)
(* and createTranslationMetadata once for each result.  The calls of the   *)
(* translator and of the CMS may fail (env).  Here req holds the request   *)
(* in flight with its results so far, and result the response with the     *)
(* request it answered.                                                    *)
(***************************************************************************)
MaxFirstRequests == 1

\* the content of the environment: the page X with a markdown teaser, an
\* asset, a link to the deleted entry GONE and the author A1; the author A2
\* of the Italian culture; the teaser P; the page N without culture and the
\* page U with a culture no language is mapped to
FirstEntries ==
  [id \in {"X", "E1", "F", "A1", "A2", "P", "N", "U"} |->
     CASE id = "X" ->
            Entry("cmsPage",
                  [f \in {"title", "teaserText", "culture", "elements",
                          "authors"} |->
                     CASE f = "title" -> TextValue("Hallo")
                       [] f = "teaserText" -> TextValue("Text ![Bild](u.jpg)")
                       [] f = "culture" -> TextValue("de-DE")
                       [] f = "elements" ->
                            LinksValue(<<EntryLink("E1"), AssetLink("IMG"),
                                         EntryLink("GONE")>>)
                       [] f = "authors" -> LinksValue(<<EntryLink("A1")>>)])
       [] id = "E1" ->
            Entry("scTeaser",
                  [f \in {"title", "text", "elements"} |->
                     CASE f = "title" -> TextValue("Eins")
                       [] f = "text" -> TextValue("Mehr")
                       [] f = "elements" -> LinksValue(<<EntryLink("F")>>)])
       [] id = "F" ->
            Entry("scTeaser",
                  [f \in {"title", "text"} |->
                     CASE f = "title" -> TextValue("Fuss")
                       [] f = "text" -> TextValue("Ende")])
       [] id = "A1" ->
            Entry("author",
                  [f \in {"name", "locale"} |->
                     CASE f = "name" -> TextValue("Anna")
                       [] f = "locale" -> TextValue("de-DE")])
       [] id = "A2" ->
            Entry("author",
                  [f \in {"name", "locale"} |->
                     CASE f = "name" -> TextValue("Anna")
                       [] f = "locale" -> TextValue("it-IT")])
       [] id = "P" ->
            Entry("scTeaser",
                  [f \in {"title", "text"} |->
                     CASE f = "title" -> TextValue("Teil")
                       [] f = "text" -> TextValue("Rest")])
       [] id = "N" ->
            Entry("cmsPage",
                  [f \in {"title", "elements"} |->
                     CASE f = "title" -> TextValue("Ohne")
                       [] f = "elements" -> LinksValue(<<EntryLink("P")>>)])
       [] id = "U" ->
            Entry("cmsPage",
                  [f \in {"title", "culture", "elements"} |->
                     CASE f = "title" -> TextValue("Fremd")
                       [] f = "culture" -> TextValue("xx-XX")
                       [] f = "elements" -> LinksValue(<<EntryLink("P")>>)])]

\* the source entry ids a request may name ("" is a missing id)
FirstSources == {"", "X", "P", "N", "U", "GONE"}

\* the target languages a request may name
FirstTargetLangs == {<<"it">>, <<"en">>, <<"it", "en">>}

\* the conditions a request may meet
FirstEnvs ==
  [translatorOk : BOOLEAN,
   failFetch : {{}, {"E1"}, {"F"}},
   failCreate : {{}, {"E1"}, {"F"}, {"X"}}]

InitFirst ==
  /\ cms = FirstEntries
  /\ meta = <<>>
  /\ files = NoFunction
  /\ nextId = 1
  /\ cloneRun = ServiceOf(NewCloneRun(FirstEntries, 1, TARGET_LANGUAGE))
  /\ req = Idle
  /\ result = NoResult
  /\ nEdits = 0
  /\ nReq = 0
  /\ track = NoTrack

\* the response of the clone route to request
FirstResponse(status, request) ==
  [kind |-> "clone", success |-> status = 200, status |-> status,
   request |-> request]

\* the handler up to its first await: the required parameters are checked
FirstRequest ==
  \E sourceEntryId \in FirstSources, idsOk \in BOOLEAN,
     targetLangs \in FirstTargetLangs, env \in FirstEnvs :
    LET request == [kind |-> "first", pc |-> "clone",
                    sourceEntryId |-> sourceEntryId,
                    targetLangs |-> targetLangs, env |-> env, i |-> 1,
                    allResults |-> <<>>]
    IN /\ req.kind = "idle"
       /\ nReq < MaxFirstRequests
       /\ nReq' = nReq + 1
       /\ IF sourceEntryId = "" \/ ~idsOk
          THEN /\ req' = Idle
               /\ result' = FirstResponse(400, [request EXCEPT !.env = AllWell])
          ELSE /\ req' = request
               /\ result' = NoResult
       /\ UNCHANGED <<cms, meta, files, nextId, cloneRun, nEdits, track>>

\* what a call of cloneEntry for the next target language leaves
FirstCloned(c) ==
  /\ cms' = c.run.cms
  /\ nextId' = c.run.nextId
  /\ cloneRun' = ServiceOf(c.run)
  /\ IF c.ok
     THEN /\ req' = [req EXCEPT
                       !.i = @ + 1,
                       !.pc = IF req.i = Len(req.targetLangs)
                              THEN "metadata" ELSE "clone",
                       !.allResults =
                          Append(@, [originalEntryId |-> req.sourceEntryId,
                                     clonedEntryId |-> c.clonedEntryId,
                                     cloneMapping |-> c.run.cloneMap])]
          /\ UNCHANGED result
     ELSE /\ req' = Idle
          /\ result' = FirstResponse(500, req)

\* the loop of the handler over targetLangs: cloneService.cloneEntry for the
\* next language; an error of it ends the request
FirstClone ==
  /\ req.kind = "first"
  /\ req.pc = "clone"
  /\ FirstCloned(cloneEntryIn(req.env, cms, nextId, req.sourceEntryId,
                              req.targetLangs[req.i]))
  /\ UNCHANGED <<meta, files, nEdits, nReq, track>>

RECURSIVE FirstStoreAll(_, _, _, _)
\* createTranslationMetadata for the results from the k-th on: the stores
\* after it; treeOk is whether the first tree builds succeed
FirstStoreAll(stores, request, k, treeOk) ==
  IF k > Len(request.allResults)
  THEN stores
  ELSE
    LET r == request.allResults[k]
        sourceEntry == cms[r.originalEntryId]
        relationshipData ==
          [sourceEntryId |-> r.originalEntryId,
           targetEntryId |-> r.clonedEntryId,
           metadata |-> [lastTranslatedVersion |-> sourceEntry.version,
                         lastUpdated |-> nReq, createdAt |-> nReq],
           translationContext |-> [sourceLanguage |-> SOURCE_LANGUAGE,
                                   targetLanguage |-> request.targetLangs[k]],
           fieldHashes |-> ServiceGenerateFieldHashes(sourceEntry),
           cloneMapping |-> r.cloneMapping]
        stored == storeRelationshipMetadata(stores.meta, r.originalEntryId,
                                            r.clonedEntryId, relationshipData)
        deepMap == buildCurrentReferenceMapForComparison(
                     cms, r.originalEntryId, r.clonedEntryId)
    IN FirstStoreAll(
         [meta |-> IF treeOk
                   THEN storeDeepReferenceMap(stored, r.originalEntryId,
                                              r.clonedEntryId, deepMap, nReq)
                   ELSE stored,
          files |-> Put(stores.files,
                        RelationshipFile(r.originalEntryId, r.clonedEntryId),
                        relationshipData)],
         request, k + 1, treeOk)

\* the metadata loop of the handler and its response
FirstMetadata ==
  \E treeOk \in BOOLEAN :
    LET stores == FirstStoreAll([meta |-> meta, files |-> files], req, 1,
                                treeOk)
    IN /\ req.kind = "first"
       /\ req.pc = "metadata"
       /\ meta' = stores.meta
       /\ files' = stores.files
       /\ req' = Idle
       /\ result' = FirstResponse(200, req)
       /\ UNCHANGED <<cms, nextId, cloneRun, nEdits, nReq, track>>

NextFirst ==
  \/ FirstRequest
  \/ FirstClone
  \/ FirstMetadata

SpecFirst == InitFirst /\ [][NextFirst]_vars

(***************************************************************************)
(* Properties of the clone route.                                          *)
(***************************************************************************)
\* the target language of the cloneEntry call the request is at
FirstLang == req.targetLangs[req.i]

\* the clone of the source entry e in the run the last cloneEntry left
FirstCloneOf(e) == cloneRun'.cloneMap[EntryKey(e)]

\* the ids the link fields of the entry e that a clone processes point to
ClonedLinks(e) ==
  {cms[e].fields[f].links[i].id :
     <<f, i>> \in {p \in (DOMAIN cms[e].fields) \X (1..MaxLinks) :
                     /\ IsLinks(cms[e].fields[p[1]])
                     /\ ~shouldEmptyField(p[1])
                     /\ p[2] \in DOMAIN cms[e].fields[p[1]].links
                     /\ cms[e].fields[p[1]].links[p[2]].linkType = "Entry"}}

RECURSIVE ClonedReach(_)
\* the entries of the environment a clone of the entries of S reaches
ClonedReach(S) ==
  LET next == S \cup {b \in DOMAIN cms : \E a \in S : b \in ClonedLinks(a)}
  IN IF next = S THEN S ELSE ClonedReach(next)

\* the text the clone of a field writes when nothing is translated
Untranslated(fieldId, text, targetLanguage) ==
  IF fieldId = "culture"
  THEN getCultureValue(ToLowerCase(targetLanguage))
  ELSE IF fieldId = "title"
  THEN CLONE_PREFIX \o " " \o text
  ELSE text

\* C22: when every translator call fails and every CMS call succeeds,
\* cloneEntry for the page X completes and creates a new entry for X and for
\* every entry it references; in the created entries each text equals the
\* source text, but culture holds the target locale tag and title is the
\* source title after the clone prefix.
C22_TranslatorOutageKeepsSource ==
  [][/\ FirstClone
     /\ req.sourceEntryId = "X"
     /\ ~req.env.translatorOk
     /\ req.env.failFetch = {}
     /\ req.env.failCreate = {}
     => /\ req'.kind = "first"
        /\ \A e \in ClonedReach({"X"}) :
             /\ EntryKey(e) \in DOMAIN cloneRun'.cloneMap
             /\ FirstCloneOf(e) \notin DOMAIN cms
             /\ FirstCloneOf(e) \in DOMAIN cms'
             /\ \A f \in DOMAIN cms[e].fields :
                  IsText(cms[e].fields[f]) =>
                    cms'[FirstCloneOf(e)].fields[f] =
                      TextValue(Untranslated(f, cms[e].fields[f].text,
                                             FirstLang))]_vars

\* a request for X in Italian was answered with success although every
\* translator call failed: the clone of X has the prefixed source title, the
\* source teaser with its image and the Italian culture
C22_Witness ==
  /\ result.kind = "clone"
  /\ result.success
  /\ result.request.sourceEntryId = "X"
  /\ result.request.targetLangs = <<"it">>
  /\ ~result.request.env.translatorOk
  /\ result.request.env.failFetch = {}
  /\ result.request.env.failCreate = {}
  /\ LET t == result.request.allResults[1].clonedEntryId
     IN /\ cms[t].fields["title"] = TextValue("[Clone] Hallo")
        /\ cms[t].fields["teaserText"] = cms["X"].fields["teaserText"]
        /\ cms[t].fields["culture"] = TextValue("it-IT")
        /\ Cardinality(DOMAIN cms \ DOMAIN FirstEntries) = 3

\* the references of X whose fetch or clone fails in the request
FailedReferences ==
  (ClonedReach({"X"}) \cap (req.env.failFetch \cup req.env.failCreate))
    \cup {"GONE"}

\* the ids of the tree snapshot stored for the k-th result of the request
StoredTreeIds(m, request, k) ==
  FlatIds(getDeepReferenceMap(m, request.allResults[k].originalEntryId,
                              request.allResults[k].clonedEntryId)[1]
            .flattenedRefs)

\* C23: when the fetch or the clone of an entry X references fails in the
\* first clone of X, cloneEntry still completes and creates the clone of X;
\* the failed reference gets no clone map entry, the link to it is written as
\* it was, and an entry that references it is still cloned.  When the fetch
\* of a referenced entry fails in the tree build, the tree is still stored,
\* without that entry.
C23_FailureConfinedToSubtree ==
  [][/\ (/\ FirstClone
         /\ req.sourceEntryId = "X"
         /\ "X" \notin req.env.failCreate
         => /\ req'.kind = "first"
            /\ EntryKey("X") \in DOMAIN cloneRun'.cloneMap
            /\ FirstCloneOf("X") \in DOMAIN cms' \ DOMAIN cms
            /\ \A e \in FailedReferences :
                 /\ EntryKey(e) \notin DOMAIN cloneRun'.cloneMap
                 /\ \A a \in {b \in ClonedReach({"X"}) \ FailedReferences :
                                "elements" \in DOMAIN cms[b].fields} :
                      \A i \in DOMAIN cms[a].fields["elements"].links :
                        cms[a].fields["elements"].links[i] = EntryLink(e) =>
                          /\ EntryKey(a) \in DOMAIN cloneRun'.cloneMap
                          /\ cms'[FirstCloneOf(a)].fields["elements"].links[i]
                               = EntryLink(e))
     /\ (/\ FirstMetadata
         /\ req.sourceEntryId = "X"
         /\ ~IsNull(getDeepReferenceMap(
                      meta', "X", req.allResults[1].clonedEntryId))
         => \A k \in DOMAIN req.allResults :
              StoredTreeIds(meta', req, k) = ClonedReach({"X"}))]_vars

\* a request for X was answered with success although createEntry failed for
\* the clone of F: the clones of X and E1 exist, the clone of E1 links F, and
\* the tree of X is stored
C23_Witness ==
  /\ result.kind = "clone"
  /\ result.success
  /\ result.request.sourceEntryId = "X"
  /\ result.request.env.failCreate = {"F"}
  /\ result.request.env.failFetch = {}
  /\ LET r == result.request.allResults[1]
     IN /\ EntryKey("F") \notin DOMAIN r.cloneMapping
        /\ cms[r.cloneMapping[EntryKey("E1")]].fields["elements"]
             = LinksValue(<<EntryLink("F")>>)
        /\ cms[r.clonedEntryId].fields["elements"].links[1]
             = EntryLink(r.cloneMapping[EntryKey("E1")])
        /\ cms[r.clonedEntryId].fields["elements"].links[3] = EntryLink("GONE")
        /\ ~IsNull(getDeepReferenceMap(meta, "X", r.clonedEntryId))

\* the author entry of the culture of targetLanguage with the name of the
\* author entry a, or ""
AuthorMatch(a, targetLanguage) ==
  LET hits == {b \in DOMAIN cms :
                 /\ cms[b].ctype = "author"
                 /\ cms[b].fields["name"] = cms[a].fields["name"]
                 /\ cms[b].fields["locale"] =
                      TextValue(getCultureValue(ToLowerCase(targetLanguage)))}
  IN IF hits = {} THEN "" ELSE CHOOSE b \in hits : TRUE

\* C27: in the first clone of X with the default configuration, where X.authors
\* links the author A1: when an author with the name of A1 and the target
\* culture as locale exists, the authors field of the clone links that
\* author, the clone map records Entry:A1 -> that author and no author entry
\* is created; when none exists, the authors field links a new clone of A1.
C27_AuthorRelinked ==
  [][/\ FirstClone
     /\ req.sourceEntryId = "X"
     /\ req'.kind = "first"
     => LET authors == cms'[FirstCloneOf("X")].fields["authors"].links
            created == DOMAIN cms' \ DOMAIN cms
        IN IF AuthorMatch("A1", FirstLang) # ""
           THEN /\ authors = <<EntryLink(AuthorMatch("A1", FirstLang))>>
                /\ EntryKey("A1") \in DOMAIN cloneRun'.cloneMap
                /\ FirstCloneOf("A1") = AuthorMatch("A1", FirstLang)
                /\ \A t \in created : cms'[t].ctype # "author"
           ELSE /\ Len(authors) = 1
                /\ authors[1].id \in created
                /\ cms'[authors[1].id].ctype = "author"
                /\ EntryKey("A1") \in DOMAIN cloneRun'.cloneMap
                /\ FirstCloneOf("A1") = authors[1].id]_vars

\* the source entry id names an entry the clone route does not accept: no
\* page, or a page whose culture is missing or mapped to no language
InvalidSource(id) ==
  /\ id \in DOMAIN cms
  /\ \/ cms[id].ctype # "cmsPage"
     \/ "culture" \notin DOMAIN cms[id].fields
     \/ mapContentfulLocaleToDeepLLanguage(cms[id].fields["culture"].text) = ""

\* C28: a clone request with a missing id is answered 400 by the handler; a
\* request whose source is no page, or a page without culture or with a
\* culture mapped to no language, fails in the cloneEntry call of its first
\* target language; in both cases no entry is created and no relationship,
\* tree snapshot or tracking file is written, whatever the target languages.
C28_InvalidRequestHasNoEffect ==
  [][/\ (FirstRequest /\ req'.kind = "idle"
         => /\ result'.status = 400
            /\ ~result'.success
            /\ UNCHANGED <<cms, meta, files, nextId>>)
     /\ (FirstClone /\ InvalidSource(req.sourceEntryId)
         => /\ req.i = 1
            /\ req'.kind = "idle"
            /\ ~result'.success
            /\ UNCHANGED <<cms, meta, files, nextId>>)]_vars

\* a request for the teaser P in two target languages was answered with a
\* failure, and the environment and the stores are as they were
C28_Witness ==
  /\ result.kind = "clone"
  /\ ~result.success
  /\ result.status = 500
  /\ result.request.sourceEntryId = "P"
  /\ result.request.targetLangs = <<"it", "en">>
  /\ cms = FirstEntries
  /\ meta = <<>>
  /\ files = NoFunction

(***************************************************************************)
(* The translation of one markdown field value, by the first clone         *)
(* (translateMarkdownContent) and by an update (handleBasicFieldChange).   *)
(* Here req holds the source value and whether the translator calls for    *)
(* the content and for the captions succeed, and result what was written   *)
(* to the target field and what was handed to the translator.              *)
(***************************************************************************)
MaxPieces == 3

\* the pieces markdown values are made of
MarkdownPieces == {"Text ", "![Bild](u.jpg)", "![](v.png)", "[Link](w.htm)"}

RECURSIVE Concat(_)
Concat(pieces) ==
  IF pieces = <<>> THEN "" ELSE Head(pieces) \o Concat(Tail(pieces))

\* the source values: up to MaxPieces pieces in a row
MarkdownValues ==
  {Concat(pieces) :
     pieces \in UNION {[1..n -> MarkdownPieces] : n \in 0..MaxPieces}}

InitText ==
  /\ cms = InitialEntries
  /\ meta = <<>>
  /\ files = NoFunction
  /\ nextId = 1
  /\ cloneRun = ServiceOf(NewCloneRun(InitialEntries, 1, TARGET_LANGUAGE))
  /\ req \in [kind : {"text"}, content : MarkdownValues,
              mainOk : BOOLEAN, captionOk : BOOLEAN]
  /\ result = [kind |-> "none", text |-> "", sent |-> <<>>]
  /\ nEdits = 0
  /\ nReq = 0
  /\ track = NoTrack

\* the first clone translates the value of the markdown field text of a
\* teaser
TextClone ==
  /\ result.kind = "none"
  /\ result' = [kind |-> "clone",
                text |-> MarkdownContent(req.mainOk, req.captionOk,
                                         req.content, "DE", TARGET_LANGUAGE),
                sent |-> MarkdownSent(req.mainOk, req.content)]
  /\ UNCHANGED <<cms, meta, files, nextId, cloneRun, req, nEdits, nReq, track>>

\* an update translates the new value of the markdown field text of the
\* teaser E1 into the clone of E1
TextUpdate ==
  /\ result.kind = "none"
  /\ result' = [kind |-> "update",
                text |-> handleBasicFieldChangeIn(
                           req.mainOk, cms["E1"], "text",
                           Some(TextValue(req.content)),
                           [sourceLanguage |-> SOURCE_LANGUAGE,
                            targetLanguage |-> TARGET_LANGUAGE])
                           .fields["text"].text,
                sent |-> IncrementalSent(req.content)]
  /\ UNCHANGED <<cms, meta, files, nextId, cloneRun, req, nEdits, nReq, track>>

NextText ==
  \/ TextClone
  \/ TextUpdate

SpecText == InitText /\ [][NextText]_vars

(***************************************************************************)
(* Properties of the translation of markdown.                              *)
(***************************************************************************)
\* the image blocks of a markdown value
ImagesOf(content) == ProtectImages(content, 1, 0).imageMap

\* C25: for a markdown value translated by the first clone or by an update,
\* the image blocks of the result have the URLs of the image blocks of the
\* source, in order; no string handed to the translator holds the URL of an
\* image block; and when the translation of the captions fails, each image
\* block of the source is in the result as it was.
C25_ImageUrlsNeverTranslated ==
  result.kind \in {"clone", "update"} =>
    /\ [i \in DOMAIN ImagesOf(result.text) |-> ImagesOf(result.text)[i].url]
         = [i \in DOMAIN ImagesOf(req.content) |-> ImagesOf(req.content)[i].url]
    /\ \A i \in DOMAIN result.sent : \A j \in DOMAIN ImagesOf(req.content) :
         ~Includes(result.sent[i], ImagesOf(req.content)[j].url)
    /\ ~req.captionOk =>
         \A j \in DOMAIN ImagesOf(req.content) :
           Includes(result.text, ImagesOf(req.content)[j].fullMatch)

\* what C25 says, of the first clone alone
CloneKeepsImageUrls ==
  result.kind = "clone" => C25_ImageUrlsNeverTranslated

(***************************************************************************)
(* Two update requests at a time.  Each POST /api/incremental/update runs  *)
(* with a service of its own, and the server runs the handler of a request *)
(* until it waits for the CMS, the stores or the translator; then the      *)
(* handler of the other request may go on.  Here req is the request whose  *)
(* handler runs next, and track.waiting the other request in flight (Idle: *)
(* none).                                                                  *)
(***************************************************************************)
InitTwo ==
  /\ cms = InitialEntries
  /\ meta = <<>>
  /\ files = NoFunction
  /\ nextId = 1
  /\ cloneRun = ServiceOf(NewCloneRun(InitialEntries, 1, TARGET_LANGUAGE))
  /\ req = Idle
  /\ result = NoResult
  /\ nEdits = 0
  /\ nReq = 0
  /\ track = [hist |-> Put(NoFunction, 1, InitialEntries[ROOT].fields),
              translated |-> 0, dirty |-> {}, checked |-> {}, atStart |-> {},
              quiet |-> FALSE, streak |-> 0, fresh |-> FALSE,
              waiting |-> Idle]

\* the handler of the request that runs waits, or no handler runs: the
\* handler of the other request goes on, or a new request may arrive
Yield ==
  /\ req.kind \in {"idle", "update"}
  /\ track.waiting.kind \in {"idle", "update"}
  /\ req # track.waiting
  /\ req' = track.waiting
  /\ track' = [track EXCEPT !.waiting = req]
  /\ UNCHANGED <<cms, meta, files, nextId, cloneRun, result, nEdits, nReq>>

NextTwo ==
  \/ CloneBegin
  \/ CloneMetadata
  \/ EditLinks
  \/ UpdateBegin
  \/ UpdateDetect
  \/ UpdateApply
  \/ UpdateStoreRelationship
  \/ UpdateRefreshTree
  \/ Yield

SpecTwo == InitTwo /\ [][NextTwo]_vars

(***************************************************************************)
(* Properties of concurrent updates.                                       *)
(***************************************************************************)
\* the entries created as the clone of the source entry e by an update
UpdateClonesOf(e) ==
  {t \in DOMAIN cms \ DOMAIN InitialEntries :
     /\ cms[t].ctype = cms[e].ctype
     /\ cms[t].fields["title"] =
          TextValue(DeepL(cms[e].fields["title"].text, SOURCE_LANGUAGE,
                          TARGET_LANGUAGE))}

\* the source version the stored relationship was last translated from
StoredVersion ==
  LET relationship == getRelationship(meta, files, ROOT, TargetId)
  IN IF IsNull(relationship)
     THEN 0
     ELSE relationship[1].metadata.lastTranslatedVersion

\* C21: two update requests for the pair of the root and its clone are never
\* in flight together (the second begins when the first has ended), a
\* reference added to the root is cloned at most once, and no request writes
\* an older source version over the relationship another request stored.
C21_UpdatesSerialized ==
  [][/\ ~(req'.kind = "update" /\ track'.waiting.kind = "update")
     /\ Cardinality(UpdateClonesOf("E2"))' <= 1
     /\ StoredVersion' >= StoredVersion]_vars

(***************************************************************************)
(* The reference tree over reference graphs: the editors link the entries  *)
(* A, B, C and D and the asset IMG in any way, then the tree of A is       *)
(* built.  Here result holds the map buildCurrentReferenceMapForComparison *)
(* returned.                                                               *)
(***************************************************************************)
\* an editor appends a link to the asset IMG to the references of a
GraphAddAsset ==
  \E a \in GraphIds :
    /\ result.kind = "none"
    /\ NumLinks(GraphIds) < MaxLinks
    /\ ~SeqContains(LinksOf(a), "IMG")
    /\ cms' = [cms EXCEPT ![a].fields["elements"] =
                            LinksValue(Append(@.links, AssetLink("IMG"))),
                          ![a].version = @ + 1]
    /\ UNCHANGED <<meta, files, nextId, cloneRun, req, result, nEdits, nReq,
                   track>>

\* buildCurrentReferenceMapForComparison for the page A
GraphTree ==
  /\ result.kind = "none"
  /\ result' = [kind |-> "tree",
                deepMap |-> buildCurrentReferenceMapForComparison(
                              cms, "A", "At")]
  /\ UNCHANGED <<cms, meta, files, nextId, cloneRun, req, nEdits, nReq, track>>

NextTree ==
  \/ GraphAddLink
  \/ GraphAddAsset
  \/ GraphTree

SpecTree == InitClone /\ [][NextTree]_vars

(***************************************************************************)
(* Properties of the reference tree.                                       *)
(***************************************************************************)
RECURSIVE TreeWithinDepth(_, _)
\* node is at depth depth, at most MAX_DEPTH, names an entry, has no
\* children at MAX_DEPTH, and so have its children, one level deeper
TreeWithinDepth(node, depth) ==
  /\ node.depth = depth
  /\ depth <= MAX_DEPTH
  /\ node.id \in GraphIds
  /\ depth = MAX_DEPTH => node.children = <<>>
  /\ \A i \in DOMAIN node.children :
       /\ node.children[i].parentId = node.id
       /\ TreeWithinDepth(node.children[i], depth + 1)

RECURSIVE TreeSize(_)
\* the number of nodes of the tree below and with node
TreeSize(node) ==
  IF node.children = <<>>
  THEN 1
  ELSE 1 + TreeSize(Head(node.children))
         + TreeSize([node EXCEPT !.children = Tail(@)]) - 1

\* C31: in the tree buildReferenceTree returns for any graph, the root has
\* depth 0, each child has the depth of its parent plus 1 and at most
\* maxDepth, a node at maxDepth has no children and no node names an asset;
\* the build ends (the tree is finite: one path per node, of at most
\* maxDepth links).
C31_TreeWithinDepth ==
  result.kind = "tree" =>
    /\ result.deepMap.referenceTree.id = "A"
    /\ TreeWithinDepth(result.deepMap.referenceTree, 0)
    /\ \A i \in DOMAIN result.deepMap.flattenedRefs :
         result.deepMap.flattenedRefs[i].id \in GraphIds

\* the tree of a graph with a cycle and an asset was built: it has a node at
\* depth maxDepth, without children although its entry has references
C31_Witness ==
  /\ result.kind = "tree"
  /\ \E a \in GraphIds : SeqContains(LinksOf(a), "IMG")
  /\ \E i \in DOMAIN result.deepMap.flattenedRefs :
       /\ result.deepMap.flattenedRefs[i].depth = MAX_DEPTH
       /\ LinksOf(result.deepMap.flattenedRefs[i].id) # <<>>
  /\ TreeSize(result.deepMap.referenceTree) >= 4

RECURSIVE NoSelfDescendant(_, _)
\* no node below and with node names an entry of path or of its own path
NoSelfDescendant(node, path) ==
  /\ node.id \notin path
  /\ \A i \in DOMAIN node.children :
       NoSelfDescendant(node.children[i], path \cup {node.id})

\* C32: in the tree built for any graph, cycles included, no node is a
\* descendant of a node of the same entry, and the entry of the root in the
\* flattened map has depth 0 and no parent.
C32_NoEntryBelowItself ==
  result.kind = "tree" =>
    /\ NoSelfDescendant(result.deepMap.referenceTree, {})
    /\ FlatGet(result.deepMap.flattenedRefs, "A").depth = 0
    /\ FlatGet(result.deepMap.flattenedRefs, "A").parentId = ""

(***************************************************************************)
(* Properties of the entries an update creates.                            *)
(***************************************************************************)
\* the entry the first clone creates for the source entry e, in a run whose
\* main page is the root and whose target language is targetLanguage
FirstCloneEntry(c) == c.run.cms[c.id]

FirstCloneFor(e, targetLanguage) ==
  FirstCloneEntry(cloneEntryRecursive(
                    [NewCloneRun(cms, nextId, targetLanguage) EXCEPT
                       !.mainLanguage =
                         detectSourceLocaleFromEntry(cms[ROOT].fields)],
                    e, cms[e]))

\* the text fields of an entry
TextFieldsOf(entry) ==
  [f \in {g \in DOMAIN entry.fields : IsText(entry.fields[g])} |->
     entry.fields[f].text]

\* the entry links of an entry that point to source entries
SourceLinksOf(entry) ==
  {<<f, i>> \in (DOMAIN entry.fields) \X (1..MaxLinks) :
     /\ IsLinks(entry.fields[f])
     /\ i \in DOMAIN entry.fields[f].links
     /\ entry.fields[f].links[i].linkType = "Entry"
     /\ entry.fields[f].links[i].id \in DOMAIN InitialEntries}

\* C33: an entry an update creates for a new reference is the entry the first
\* clone creates for that source entry under the translation context of the
\* relationship: the same texts (prefix, markdown and empty-on-clone policies
\* applied) and no link left pointing to a source entry.
C33_NewReferenceClonedAsFirstClone ==
  [][UpdateApply =>
       \A t \in DOMAIN cms' \ DOMAIN cms :
         /\ \E e \in DOMAIN InitialEntries :
              /\ cms'[t].ctype = cms[e].ctype
              /\ TextFieldsOf(cms'[t]) =
                   TextFieldsOf(FirstCloneFor(
                     e, req.relationship[1].translationContext.targetLanguage))
         /\ SourceLinksOf(cms'[t]) = {}]_vars

(***************************************************************************)
(* The culture of created entries: the page X, whose culture is any of the *)
(* source cultures, is cloned by the first clone and as a new reference of *)
(* an update, for a target language spelled in any letter case.  Here req  *)
(* holds the target language as the client supplied it, which the clone    *)
(* route passes to cloneEntry and stores in the translation context.       *)
(***************************************************************************)
\* the spellings of the target language
SuppliedLanguages == {"it", "IT", "It", "en", "EN", "En", "de", "DE", "De"}

\* the culture values of the source page
SourceCultures == {"de-DE", "it-IT", "en-GB"}

InitCulture ==
  /\ \E culture \in SourceCultures :
       cms = [InitialEntries EXCEPT
                ![ROOT].fields["culture"] = TextValue(culture)]
  /\ meta = <<>>
  /\ files = NoFunction
  /\ nextId = 1
  /\ cloneRun = ServiceOf(NewCloneRun(InitialEntries, 1, TARGET_LANGUAGE))
  /\ req \in [kind : {"culture"}, targetLanguage : SuppliedLanguages]
  /\ result = [kind |-> "none", first |-> "", added |-> ""]
  /\ nEdits = 0
  /\ nReq = 0
  /\ track = NoTrack

\* what a first clone c of the page leaves
CultureCloned(c) ==
  /\ c.ok
  /\ cms' = c.run.cms
  /\ nextId' = c.run.nextId
  /\ cloneRun' = ServiceOf(c.run)
  /\ result' = [result EXCEPT !.kind = "created", !.first = c.clonedEntryId]

\* cloneEntry for the page in the target language of the request
CultureClone ==
  /\ result.first = ""
  /\ CultureCloned(cloneEntryIn(AllWell, cms, nextId, ROOT,
                                req.targetLanguage))
  /\ UNCHANGED <<meta, files, req, nEdits, nReq, track>>

\* what a clone n of the page as a new reference leaves
CultureAdded(n) ==
  /\ n.id # ""
  /\ cms' = n.work.cms
  /\ nextId' = n.work.nextId
  /\ result' = [result EXCEPT !.kind = "created", !.added = n.id]

\* cloneNewReference for the page, a new reference of another page, under the
\* translation context createTranslationMetadata stored for the request
CultureNewReference ==
  /\ result.added = ""
  /\ CultureAdded(cloneNewReference(
                    [cms |-> cms, nextId |-> nextId, writes |-> <<>>], ROOT,
                    [sourceLanguage |-> SOURCE_LANGUAGE,
                     targetLanguage |-> req.targetLanguage]))
  /\ UNCHANGED <<meta, files, cloneRun, req, nEdits, nReq, track>>

NextCulture ==
  \/ CultureClone
  \/ CultureNewReference

SpecCulture == InitCulture /\ [][NextCulture]_vars

(***************************************************************************)
(* Properties of the culture of created entries.                           *)
(***************************************************************************)
\* the locale tag of a target language, in any letter case
LocaleTagOf(targetLanguage) ==
  CASE targetLanguage \in {"it", "IT", "It"} -> "it-IT"
    [] targetLanguage \in {"en", "EN", "En"} -> "en-GB"
    [] targetLanguage \in {"de", "DE", "De"} -> "de-DE"

\* C34: every entry created as a clone, by the first clone or as a new
\* reference of an update, has in its culture field the locale tag of the
\* target language of the request, in whatever letter case the language was
\* supplied (so the value is no translator output either).
C34_CultureIsTargetLocale ==
  \A t \in DOMAIN cms \ DOMAIN InitialEntries :
    "culture" \in DOMAIN cms[t].fields =>
      cms[t].fields["culture"] = TextValue(LocaleTagOf(req.targetLanguage))

\* what C34 says, of the first clone alone
FirstCloneCultureIsTargetLocale ==
  result.first # "" =>
    cms[result.first].fields["culture"] =
      TextValue(LocaleTagOf(req.targetLanguage))

(***************************************************************************)
(* Entries with an internal name: the page X and the teaser E1 carry the   *)
(* Symbol field internalName, which the first clone translates as it       *)
(* translates every other string, and the editors change it.               *)
(***************************************************************************)
NamedEntries ==
  [id \in DOMAIN InitialEntries |->
     IF id \in {"X", "E1"}
     THEN [InitialEntries[id] EXCEPT
             !.fields = Put(@, "internalName", TextValue("Teaser"))]
     ELSE InitialEntries[id]]

InitNames ==
  /\ cms = NamedEntries
  /\ meta = <<>>
  /\ files = NoFunction
  /\ nextId = 1
  /\ cloneRun = ServiceOf(NewCloneRun(NamedEntries, 1, TARGET_LANGUAGE))
  /\ req = Idle
  /\ result = NoResult
  /\ nEdits = 0
  /\ nReq = 0
  /\ track = [NoTrack EXCEPT !.hist = Put(NoFunction, 1, NamedEntries[ROOT].fields)]

NameEdits == {<<"X", "Neu">>, <<"E1", "Neu">>, <<"E1", "Alt">>}

\* an editor saves a new internal name in a source entry
EditName ==
  \E e \in NameEdits :
    LET id == e[1]
        entry == [cms[id] EXCEPT !.fields["internalName"] = TextValue(e[2]),
                                 !.version = @ + 1]
    IN /\ nEdits < MaxEdits
       /\ cms[id].fields["internalName"] # TextValue(e[2])
       /\ cms' = [cms EXCEPT ![id] = entry]
       /\ nEdits' = nEdits + 1
       /\ track' = Edited(id, "internalName", entry)
       /\ UNCHANGED <<meta, files, nextId, cloneRun, req, result, nReq>>

NextNames ==
  \/ EditName
  \/ CloneBegin
  \/ CloneMetadata
  \/ StatusCheck
  \/ UpdateBegin
  \/ UpdateDetect
  \/ UpdateApply
  \/ UpdateStoreRelationship
  \/ UpdateRefreshTree

SpecNames == InitNames /\ [][NextNames]_vars

(***************************************************************************)
(* Properties of the fields the first clone translates.                    *)
(***************************************************************************)
\* the clone of the source entry id
CloneOf(id) == cloneRun.cloneMap[EntryKey(id)]

\* the first clone wrote a translation into field f of the clone of id
CloneTranslated(id, f) ==
  /\ EntryKey(id) \in DOMAIN cloneRun.cloneMap
  /\ f \in DOMAIN cms[id].fields
  /\ IsText(cms[id].fields[f])
  /\ ~shouldEmptyField(f)
  /\ ~shouldCopyAsIs(f)
  /\ CloneTextField(TRUE, cms[id].ctype, f, cms[id].fields[f].text, {}, "DE",
                    TARGET_LANGUAGE) # cms[id].fields[f].text

\* field f of the clone of id holds a translation of the source value
HoldsTranslation(id, f) ==
  cms[CloneOf(id)].fields[f] =
    TextValue(DeepL(cms[id].fields[f].text, SOURCE_LANGUAGE, TARGET_LANGUAGE))

\* C35: when the source value of a field the first clone translated was
\* changed after the clone, the next status check reports a change, and the
\* next update that ends with success and with no edit during its run has
\* translated the new value into the clone.
C35_TranslatedFieldsAreTracked ==
  [][/\ (StatusCheck /\ meta # <<>>
           /\ (\E d \in track.dirty : CloneTranslated(d[1], d[2])))
          => result'.hasChanges
     /\ (req.kind = "update" /\ req'.kind = "idle" /\ result'.kind = "update"
           /\ result'.success /\ track.quiet)
          => \A d \in track.dirty :
               CloneTranslated(d[1], d[2]) => HoldsTranslation(d[1], d[2])']_vars

(***************************************************************************)
(* Edits that land while an update runs: the editors change the root       *)
(* between requests, and a referenced entry after the detection step of a  *)
(* running update and before the update has stored its tree.               *)
(***************************************************************************)
RootEdits == {e \in TextEdits : e[1] = ROOT}

ChildEdits == {e \in TextEdits : e[1] # ROOT /\ e[2] = "text"}

\* an editor saves a new text in the root while no request runs
EditBefore ==
  \E e \in RootEdits :
    LET entry == [cms[ROOT] EXCEPT !.fields[e[2]] = TextValue(e[3]),
                                   !.version = @ + 1]
    IN /\ req.kind = "idle"
       /\ nEdits < MaxEdits
       /\ cms[ROOT].fields[e[2]] # TextValue(e[3])
       /\ cms' = [cms EXCEPT ![ROOT] = entry]
       /\ nEdits' = nEdits + 1
       /\ track' = Edited(ROOT, e[2], entry)
       /\ UNCHANGED <<meta, files, nextId, cloneRun, req, result, nReq>>

\* an editor saves a new text in a referenced entry while an update is
\* between its detection step and the end of updateReferenceVersions
EditDuring ==
  \E e \in ChildEdits :
    LET id == e[1]
        entry == [cms[id] EXCEPT !.fields[e[2]] = TextValue(e[3]),
                                 !.version = @ + 1]
    IN /\ req.kind = "update"
       /\ req.pc \in {"apply", "store", "refresh"}
       /\ nEdits < MaxEdits
       /\ cms[id].fields[e[2]] # TextValue(e[3])
       /\ cms' = [cms EXCEPT ![id] = entry]
       /\ nEdits' = nEdits + 1
       /\ track' = Edited(id, e[2], entry)
       /\ UNCHANGED <<meta, files, nextId, cloneRun, req, result, nReq>>

NextDuring ==
  \/ EditBefore
  \/ EditDuring
  \/ CloneBegin
  \/ CloneMetadata
  \/ StatusCheck
  \/ UpdateBegin
  \/ UpdateDetect
  \/ UpdateApply
  \/ UpdateStoreRelationship
  \/ UpdateRefreshTree

SpecDuring == Init /\ [][NextDuring]_vars

\* an edit of a referenced entry that no update has translated
PendingChildEdit ==
  \E d \in track.dirty : d[1] # ROOT /\ ~HoldsTranslation(d[1], d[2])

\* C36: an edit of a referenced entry that landed after the detection step of
\* an update and before the update stored its tree, and that the update did
\* not translate, is reported by the request that follows the successful
\* update: a status check answers hasChanges, an update detects changes.
C36_EditDuringUpdateIsNotLost ==
  [][(/\ result.kind = "update"
      /\ result.success
      /\ ~result.upToDate
      /\ PendingChildEdit)
       => /\ (StatusCheck /\ req.kind = "idle") => result'.hasChanges
          /\ UpdateDetect => req'.pc = "apply"]_vars

(***************************************************************************)
(* POST /api/clone when a call of the handler itself fails: the cloneEntry *)
(* call of one target language, or createTranslationMetadata for one of    *)
(* the results.                                                            *)
(***************************************************************************)
\* cloneService.cloneEntry for the next language throws before it creates an
\* entry (the source entry cannot be fetched): the catch of the handler
\* answers 500
FirstFail ==
  /\ req.kind = "first"
  /\ req.pc = "clone"
  /\ req' = Idle
  /\ result' = FirstResponse(500, req)
  /\ UNCHANGED <<cms, meta, files, nextId, cloneRun, nEdits, nReq, track>>

\* the metadata loop when createTranslationMetadata throws for the k-th
\* result (a getEntry or the file write fails): the results before it are
\* stored, the error is caught and the handler answers with success
FirstMetadataFails ==
  /\ req.kind = "first"
  /\ req.pc = "metadata"
  /\ \E k \in DOMAIN req.allResults :
       LET stores == FirstStoreAll([meta |-> meta, files |-> files],
                                   [req EXCEPT
                                      !.allResults = SubSeq(@, 1, k - 1)],
                                   1, TRUE)
       IN /\ meta' = stores.meta
          /\ files' = stores.files
  /\ req' = Idle
  /\ result' = FirstResponse(200, req)
  /\ UNCHANGED <<cms, nextId, cloneRun, nEdits, nReq, track>>

NextLangs ==
  \/ FirstRequest
  \/ FirstClone
  \/ FirstFail
  \/ FirstMetadata
  \/ FirstMetadataFails

SpecLangs == InitFirst /\ [][NextLangs]_vars

\* a relationship is stored for every result of the request
AllResultsStored(request, m, f) ==
  \A k \in DOMAIN request.allResults :
    ~IsNull(getRelationship(m, f, request.allResults[k].originalEntryId,
                            request.allResults[k].clonedEntryId))

\* C37: when the clone route answers with success, a relationship is stored
\* for every pair of allResults; and when the request ends, with success or
\* with a failure in a later target language, a relationship is stored for
\* every root target entry it created.
C37_EveryCreatedRootHasRelationship ==
  [][/\ (req.kind = "first" /\ result'.kind = "clone" /\ result'.success)
          => AllResultsStored(req, meta', files')
     /\ (req.kind = "first" /\ req'.kind = "idle")
          => AllResultsStored(req, meta', files')]_vars

\* what C37 says of a request of which no call of the handler fails
MetadataStoredWhenNothingFails ==
  [][FirstMetadata => AllResultsStored(req, meta', files')]_vars

(***************************************************************************)
(* Properties of the links of the entries a first clone creates.           *)
(***************************************************************************)
\* the Entry links of an entry
EntryLinksOf(entry) ==
  {entry.fields[f].links[i].id :
     <<f, i>> \in {p \in (DOMAIN entry.fields) \X (1..MaxLinks) :
                     /\ IsLinks(entry.fields[p[1]])
                     /\ p[2] \in DOMAIN entry.fields[p[1]].links
                     /\ entry.fields[p[1]].links[p[2]].linkType = "Entry"}}

\* C38: after the first clone of the page A, every Entry link of an entry the
\* run created names a value of the clone map of the run, and none names a
\* source entry of the graph.
C38_ClonesLinkOnlyClones ==
  result.kind = "clone" =>
    \A t \in DOMAIN cms \ GraphIds :
      /\ EntryLinksOf(cms[t]) \subseteq
           {cloneRun.cloneMap[k] : k \in DOMAIN cloneRun.cloneMap}
      /\ EntryLinksOf(cms[t]) \cap GraphIds = {}

(***************************************************************************)
(* References added below the root: the editors change the references of   *)
(* the teaser E1, a referenced entry at depth 1.                           *)
(***************************************************************************)
ChildLinkEdits ==
  {<<EntryLink("F"), EntryLink("E2")>>, <<EntryLink("E2")>>,
   <<EntryLink("E2"), EntryLink("F")>>}

\* an editor saves a new list of references in the teaser E1
EditChildLinks ==
  \E links \in ChildLinkEdits :
    LET entry == [cms["E1"] EXCEPT !.fields["elements"] = LinksValue(links),
                                   !.version = @ + 1]
    IN /\ nEdits < MaxEdits
       /\ cms["E1"].fields["elements"] # LinksValue(links)
       /\ cms' = [cms EXCEPT !["E1"] = entry]
       /\ nEdits' = nEdits + 1
       /\ track' = Edited("E1", "elements", entry)
       /\ UNCHANGED <<meta, files, nextId, cloneRun, req, result, nReq>>

NextDeep ==
  \/ EditChildLinks
  \/ CloneBegin
  \/ CloneMetadata
  \/ StatusCheck
  \/ UpdateBegin
  \/ UpdateDetect
  \/ UpdateApply
  \/ UpdateStoreRelationship
  \/ UpdateRefreshTree

SpecDeep == Init /\ [][NextDeep]_vars

\* the entries the first clone created or matched
FirstClones == {cloneRun.cloneMap[k] : k \in DOMAIN cloneRun.cloneMap}

\* the references of E1 the first clone did not clone
AddedBelowE1 ==
  {c \in EntryLinksOf(cms["E1"]) : EntryKey(c) \notin DOMAIN cloneRun.cloneMap}

\* C39: when an update ends with success and with no edit during its run,
\* and the teaser E1 has a reference that was added after the first clone,
\* the clone of E1 links, in its elements field, an entry an update created
\* (the clone of the added reference).
C39_AddedChildIsLinkedFromParentClone ==
  [][(UpdateRefreshTree /\ track.quiet /\ AddedBelowE1 # {})
       => \E t \in EntryLinksOf(cms'[CloneOf("E1")]) :
            /\ t \notin DOMAIN InitialEntries
            /\ t \notin FirstClones]_vars

(***************************************************************************)
(* checkUpdateStatus when a step after getRelationship fails.              *)
(***************************************************************************)
\* what the catch of checkUpdateStatus returns
StatusError ==
  [kind |-> "status", success |-> FALSE, upToDate |-> FALSE,
   hasRelationship |-> FALSE, hasChanges |-> FALSE, changes |-> <<>>,
   fieldsUpdated |-> <<>>, writes |-> <<>>, error |-> TRUE]

\* checkUpdateStatus whose getEntry of the source entry throws after the
\* relationship was read
StatusCheckFails ==
  /\ nReq < MaxRequests
  /\ ~IsNull(getRelationship(meta, files, ROOT, TargetId))
  /\ nReq' = nReq + 1
  /\ result' = StatusError
  /\ UNCHANGED <<cms, meta, files, nextId, cloneRun, req, nEdits, track>>

NextStatus ==
  \/ EditText
  \/ CloneBegin
  \/ CloneMetadata
  \/ StatusCheck
  \/ StatusCheckFails

SpecStatus == Init /\ [][NextStatus]_vars

\* C40: a status check answers hasRelationship = false only when no
\* relationship is stored for the pair; when the relationship exists and a
\* later step of the check fails, the answer still has hasRelationship = true.
C40_NoRelationshipOnlyWhenNoneStored ==
  [][(StatusCheck \/ StatusCheckFails)
       => (~result'.hasRelationship
             => IsNull(getRelationship(meta, files, ROOT, TargetId)))]_vars

\* what C40 says of a status check of which no step fails
StatusReportsStoredRelationship ==
  [][StatusCheck
       => (result'.hasRelationship
             <=> ~IsNull(getRelationship(meta, files, ROOT, TargetId)))]_vars

====
